---- MODULE Spec2Model ----
(***************************************************************************)
(* lazy-cpp serialization: the field-reflection core (Serializable and     *)
(* the Serializer value dispatcher) and the Binary, Text and Lazy-JSON     *)
(* adapters.                                                               *)
(*                                                                         *)
(* Representation.  A character or byte is its code 0..255; a std::string  *)
(* and a stream are sequences of codes.  A C++ integer of w bytes is its   *)
(* two's-complement numeral in base 256, most significant digit first      *)
(* (42 as int32 is <<0,0,0,42>>), so that 64-bit values are exact and the  *)
(* byte order of the wire is something the adapter has to produce.         *)
(***************************************************************************)
EXTENDS Integers, Sequences, FiniteSets, TLC

\* ------------------------------------------------------------------ bounds
MaxStrLen == 2
MaxVecLen == 2

\* ------------------------------------------------------- character codes
ChLF == 10
ChSpace == 32
ChQuote == 34
ChHash == 35
ChPlus == 43
ChComma == 44
ChMinus == 45
ChDot == 46
ChSlash == 47
ChZero == 48
ChColon == 58
ChEquals == 61
ChLBracket == 91
ChBackslash == 92
ChRBracket == 93
ChLBrace == 123
ChRBrace == 125

\* ------------------------------------------------------ sequence helpers
Last(s) == s[Len(s)]

RECURSIVE Reverse(_)
Reverse(s) == IF s = <<>> THEN <<>> ELSE Reverse(Tail(s)) \o <<Head(s)>>

RECURSIVE Zeros(_)
Zeros(n) == IF n = 0 THEN <<>> ELSE <<0>> \o Zeros(n - 1)

\* s[from..] (std::string::substr(from)); from is 1-based here
Drop(s, n) == SubSeq(s, n + 1, Len(s))
Take(s, n) == SubSeq(s, 1, n)

\* std::string::substr(0, n) == p   (n = p.length())
StartsWith(s, p) == Len(s) >= Len(p) /\ Take(s, Len(p)) = p

IsDigit(c) == c >= 48 /\ c <= 57

\* std::isspace in the "C" locale
IsSpace(c) == c \in {9, 10, 11, 12, 13, 32}

\* --------------------------------------------------- integers as numerals
\* The numeral of a small literal n (|n| < 2^31) in nbytes bytes.
RECURSIVE LitLE(_, _)
LitLE(n, nbytes) ==
    IF nbytes = 0 THEN <<>> ELSE <<n % 256>> \o LitLE(n \div 256, nbytes - 1)

Lit(n, nbytes) == Reverse(LitLE(n, nbytes))

IsZeroNum(v) == \A i \in 1..Len(v) : v[i] = 0

\* two's-complement negation (unsigned 0 - v) at the numeral's own width
RECURSIVE NegLE(_, _)
NegLE(le, carry) ==
    IF le = <<>> THEN <<>>
    ELSE LET d == (255 - Head(le)) + carry
         IN  <<d % 256>> \o NegLE(Tail(le), d \div 256)

Negate(v) == Reverse(NegLE(Reverse(v), 1))

\* v * 10 + d on an unsigned numeral; carry is what overflows the width
RECURSIVE MulAddLE(_, _)
MulAddLE(le, carry) ==
    IF le = <<>> THEN [digits |-> <<>>, carry |-> carry]
    ELSE LET t == Head(le) * 10 + carry
             r == MulAddLE(Tail(le), t \div 256)
         IN  [digits |-> <<t % 256>> \o r.digits, carry |-> r.carry]

MulAdd10(v, d) ==
    LET r == MulAddLE(Reverse(v), d)
    IN  [val |-> Reverse(r.digits), overflow |-> r.carry # 0]

\* long division of an unsigned numeral by 10
RECURSIVE DivMod10(_, _)
DivMod10(v, rem) ==
    IF v = <<>> THEN [quot |-> <<>>, rem |-> rem]
    ELSE LET t == rem * 256 + Head(v)
             r == DivMod10(Tail(v), t % 10)
         IN  [quot |-> <<t \div 10>> \o r.quot, rem |-> r.rem]

\* decimal digits (as character codes) of an unsigned numeral
RECURSIVE DecimalOf(_)
DecimalOf(v) ==
    LET r == DivMod10(v, 0)
    IN  IF IsZeroNum(r.quot) THEN <<ChZero + r.rem>>
        ELSE DecimalOf(r.quot) \o <<ChZero + r.rem>>

\* static_cast between integer widths: keep the low bytes, or extend
Narrow(v, nbytes) == SubSeq(v, Len(v) - nbytes + 1, Len(v))

Widen(v, nbytes, signed) ==
    LET fill == IF signed /\ v[1] >= 128 THEN 255 ELSE 0
    IN  [i \in 1..(nbytes - Len(v)) |-> fill] \o v

CastTo(v, nbytes, signed) ==
    IF Len(v) >= nbytes THEN Narrow(v, nbytes) ELSE Widen(v, nbytes, signed)

\* ------------------------------------------- std::to_string, std::stoll
\* std::to_string of an integer (types narrower than int promote to int,
\* which does not change the decimal text)
StdToString(v, signed) ==
    IF signed /\ v[1] >= 128
    THEN <<ChMinus>> \o DecimalOf(Negate(v))
    ELSE DecimalOf(v)

RECURSIVE SkipSpaces(_)
SkipSpaces(s) == IF s # <<>> /\ IsSpace(Head(s)) THEN SkipSpaces(Tail(s)) ELSE s

\* the leading decimal digits of s accumulated into a 64-bit unsigned numeral
RECURSIVE ParseDigits(_, _, _, _)
ParseDigits(s, acc, any, ovf) ==
    IF s = <<>> \/ ~IsDigit(Head(s))
    THEN [val |-> acc, any |-> any, overflow |-> ovf]
    ELSE LET r == MulAdd10(acc, Head(s) - ChZero)
         IN  IF r.overflow THEN ParseDigits(Tail(s), r.val, TRUE, TRUE)
             ELSE ParseDigits(Tail(s), r.val, TRUE, ovf)

IsNegative(s) == s # <<>> /\ Head(s) = ChMinus

StripSign(s) == IF s # <<>> /\ Head(s) \in {ChMinus, ChPlus} THEN Tail(s) ELSE s

\* strtoll/strtoull front end: white space, an optional sign, digits
ScanNumber(str) ==
    LET Digits(s1, r) ==
            [neg |-> IsNegative(s1), mag |-> r.val, any |-> r.any, overflow |-> r.overflow]
        Signed(s1) == Digits(s1, ParseDigits(StripSign(s1), Zeros(8), FALSE, FALSE))
    IN  Signed(SkipSpaces(str))

Pow63 == <<128, 0, 0, 0, 0, 0, 0, 0>>

\* std::stoll: status "ok", "invalid_argument" or "out_of_range"
Stoll(str) ==
    LET Converted(n) ==
            IF ~n.any THEN [status |-> "invalid_argument", val |-> Zeros(8)]
            ELSE IF n.overflow \/ (n.mag[1] >= 128 /\ ~(n.neg /\ n.mag = Pow63))
            THEN [status |-> "out_of_range", val |-> Zeros(8)]
            ELSE [status |-> "ok", val |-> IF n.neg THEN Negate(n.mag) ELSE n.mag]
    IN  Converted(ScanNumber(str))

\* std::stoull: a minus sign negates modulo 2^64 without an error
Stoull(str) ==
    LET Converted(n) ==
            IF ~n.any THEN [status |-> "invalid_argument", val |-> Zeros(8)]
            ELSE IF n.overflow THEN [status |-> "out_of_range", val |-> Zeros(8)]
            ELSE [status |-> "ok", val |-> IF n.neg THEN Negate(n.mag) ELSE n.mag]
    IN  Converted(ScanNumber(str))

\* ------------------------------------------------------ type descriptors
\* The value shapes the Serializer templates distinguish.
TInt(nbytes, signed) == [kind |-> "int", nbytes |-> nbytes, signed |-> signed]
TBool == [kind |-> "bool"]
TString == [kind |-> "string"]
TVec(elem) == [kind |-> "vec", elem |-> elem]
\* a Serializable-derived class: fields in declaration order
TObj(fields) == [kind |-> "obj", fields |-> fields]
\* a SERIALIZABLE_TYPE-registered sealed class: scalar fields, explicit list
TSealed(fields) == [kind |-> "sealed", fields |-> fields]
\* a MultiSerializable-derived class: fields in declaration order
TMulti(fields) == [kind |-> "multi", fields |-> fields]
\* SERIALIZABLE_FIELD(type, name, defaultValue)
Field(name, type, default) == [name |-> name, type |-> type, default |-> default]

IsScalar(t) == t.kind \in {"int", "bool", "string"}

\* T{}: the value-initialized value of a type
RECURSIVE ZeroValue(_)
ZeroValue(t) ==
    CASE t.kind = "int" -> Zeros(t.nbytes)
      [] t.kind = "bool" -> FALSE
      [] t.kind = "string" -> <<>>
      [] t.kind = "vec" -> <<>>
      [] OTHER -> [i \in 1..Len(t.fields) |-> ZeroValue(t.fields[i].type)]

\* a freshly constructed instance: every field at its declared default
DefaultValue(t) == [i \in 1..Len(t.fields) |-> t.fields[i].default]

\* a default-constructed element (std::vector::resize)
FreshValue(t) == IF t.kind \in {"obj", "sealed", "multi"} THEN DefaultValue(t) ELSE ZeroValue(t)

\* A small size_t / uint32 numeral as a number; sizes of 2^24 and more are
\* not sizes a vector of this model can take
IsSmallNum(v) == \A i \in 1..(Len(v) - 3) : v[i] = 0

SmallNat(v) ==
    LET n == Len(v)
    IN  v[n] + 256 * v[n - 1] + 65536 * v[n - 2]

\* ----------------------------------------------------------- adapters
\* One adapter instance: the members of BinaryContext, TextAdapter and
\* LazyJson side by side; `kind` says which class it is.
NullNode == [ok |-> FALSE, path |-> <<>>, id |-> 0]
PathNode(p) == [ok |-> TRUE, path |-> p, id |-> 0]
IdNode(i) == [ok |-> TRUE, path |-> <<>>, id |-> i]

NewAdapter(kind, writing, input) ==
    [kind |-> kind,
     writing |-> writing,          \* writeStream_ != nullptr
     out |-> <<>>,                 \* what was written to the output stream
     inp |-> input,                \* the input stream
     pos |-> 0,                    \* its read position
     pastEnd |-> FALSE,            \* a read ran past the end of the input
     threw |-> "",                 \* the exception in flight, "" for none
     data |-> <<>>,                \* TextAdapter::data_ as (key, value) pairs
     nodeCache |-> {},             \* TextAdapter::nodeCache_ keys
     arrayIndices |-> <<>>,        \* TextAdapter::arrayIndices_ as pairs
     dom |-> <<>>,                 \* LazyJson: the JsonValue heap, by id
     rootId |-> 0,                 \* LazyJson::root_
     sourceEmpty |-> TRUE,         \* LazyJson::sourceJson_.empty()
     charSigned |-> FALSE,         \* the platform's char is signed
     hashRev |-> FALSE]            \* the unordered_map iterates newest first

\* ---------------------------------------------------- Binary adapter
BinaryNode == PathNode(<<>>)   \* &dummyPath_

\* a writer that leaves out htole32 where the host is big-endian
WriteUInt32BigEndian(ad, v) == [ad EXCEPT !.out = @ \o v]

\* htole32 and write: least significant byte first
WriteUInt32ToStream(ad, v) == [ad EXCEPT !.out = @ \o Reverse(v)]

\* writeUInt16ToStream, writeUInt64ToStream and the one-byte write
WriteUIntToStream(ad, v) == [ad EXCEPT !.out = @ \o Reverse(v)]

WriteStringToStream(ad, str) ==
    LET a == WriteUInt32ToStream(ad, Narrow(Lit(Len(str), 8), 4))
    IN  [a EXCEPT !.out = @ \o str]

\* istream::read of n bytes; a short read leaves the rest of the buffer as
\* it was (zero here) and is recorded in pastEnd
ReadBytes(ad, n) ==
    LET avail == Len(ad.inp) - ad.pos
    IN  IF n <= avail
        THEN [ad |-> [ad EXCEPT !.pos = @ + n],
              val |-> SubSeq(ad.inp, ad.pos + 1, ad.pos + n)]
        ELSE [ad |-> [ad EXCEPT !.pos = Len(ad.inp), !.pastEnd = TRUE],
              val |-> SubSeq(ad.inp, ad.pos + 1, Len(ad.inp)) \o Zeros(n - avail)]

\* a reader that leaves out le32toh where the host is big-endian
ReadUIntNoSwap(ad, nbytes) == ReadBytes(ad, nbytes)

\* readUInt16 / readUInt32 / readUInt64: read, then le32toh
ReadUInt(ad, nbytes) ==
    LET Swapped(r) == [ad |-> r.ad, val |-> Reverse(r.val)]
    IN  Swapped(ReadBytes(ad, nbytes))

\* a reader that takes the last byte read for a terminator and drops it
ReadStringShort(ad) ==
    LET Chars(l) ==
            IF ~IsSmallNum(l.val)
            THEN [ad |-> [l.ad EXCEPT !.threw = "bad_alloc"], val |-> <<>>]
            ELSE IF SmallNat(l.val) > 0
            THEN LET Terminated(r) == [ad |-> r.ad, val |-> Take(r.val, Len(r.val) - 1)]
                 IN  Terminated(ReadBytes(l.ad, SmallNat(l.val)))
            ELSE [ad |-> l.ad, val |-> <<>>]
    IN  Chars(ReadUInt(ad, 4))

\* readString: the length, then that many bytes into a string of that size
ReadString(ad) ==
    LET Chars(l) ==
            IF ~IsSmallNum(l.val)
            THEN [ad |-> [l.ad EXCEPT !.threw = "bad_alloc"], val |-> <<>>]
            ELSE IF SmallNat(l.val) > 0 THEN ReadBytes(l.ad, SmallNat(l.val))
            ELSE [ad |-> l.ad, val |-> <<>>]
    IN  Chars(ReadUInt(ad, 4))

BinarySetArray(ad, node, size) ==
    IF ad.writing THEN WriteUInt32ToStream(ad, Narrow(Lit(size, 8), 4)) ELSE ad

\* getArraySize that reads the count as a 64-bit size_t
BinaryGetArraySizeWide(ad, node) == ReadUInt(ad, 8)

BinaryGetArraySize(ad, node) == ReadUInt(ad, 4)

BinarySetValue(ad, node, t, v) ==
    IF ~ad.writing THEN ad
    ELSE CASE t.kind = "string" -> WriteStringToStream(ad, v)
           [] t.kind = "bool" -> [ad EXCEPT !.out = @ \o <<IF v THEN 1 ELSE 0>>]
           [] t.kind = "int" /\ t.nbytes = 4 -> WriteUInt32ToStream(ad, v)
           [] OTHER -> WriteUIntToStream(ad, v)

BinaryGetValue(ad, node, t) ==
    IF ad.writing THEN [ad |-> ad, val |-> ZeroValue(t)]
    ELSE CASE t.kind = "string" -> ReadString(ad)
           [] t.kind = "bool" ->
                LET NonZero(r) == [ad |-> r.ad, val |-> r.val[1] # 0]
                IN  NonZero(ReadBytes(ad, 1))
           [] OTHER -> ReadUInt(ad, t.nbytes)

\* ------------------------------------------------------- std::map helpers
\* A std::map<std::string, X> is a function on the set of its keys.
MapHas(m, k) == k \in DOMAIN m
MapPut(m, k, v) == [x \in (DOMAIN m) \cup {k} |-> IF x = k THEN v ELSE m[x]]

\* ------------------------------------------------------- Text adapter
RECURSIVE FirstNotSpace(_, _)
FirstNotSpace(s, i) ==
    IF i > Len(s) THEN 0 ELSE IF s[i] # ChSpace THEN i ELSE FirstNotSpace(s, i + 1)

RECURSIVE LastNotSpace(_, _)
LastNotSpace(s, i) ==
    IF i < 1 THEN 0 ELSE IF s[i] # ChSpace THEN i ELSE LastNotSpace(s, i - 1)

\* TextAdapter::trim: strips ' ' only
trim(str) ==
    LET first == FirstNotSpace(str, 1)
    IN  IF first = 0 THEN <<>> ELSE SubSeq(str, first, LastNotSpace(str, Len(str)))

\* std::string::find(c): the 1-based index of the first c, 0 for npos
RECURSIVE FindChar(_, _, _)
FindChar(s, c, i) ==
    IF i > Len(s) THEN 0 ELSE IF s[i] = c THEN i ELSE FindChar(s, c, i + 1)

\* TextAdapter::parseLine: data_ after the line
parseLine(data, line) ==
    LET Split(trimmed, equalPos) ==
            LET key == trim(Take(trimmed, equalPos - 1))
                value == trim(Drop(trimmed, equalPos))
            IN  IF equalPos = 0 THEN data
                ELSE IF key # <<>> THEN MapPut(data, key, value)
                ELSE data
        Parse(trimmed) ==
            IF trimmed = <<>> \/ trimmed[1] = ChHash THEN data
            ELSE Split(trimmed, FindChar(trimmed, ChEquals, 1))
    IN  Parse(trim(line))

\* the constructor's std::getline loop: lines end at LF; what follows the
\* last LF is a line only when it is not empty
RECURSIVE ReadLines(_, _)
ReadLines(data, rest) ==
    IF rest = <<>> THEN data
    ELSE LET nl == FindChar(rest, ChLF, 1)
         IN  IF nl = 0 THEN parseLine(data, rest)
             ELSE ReadLines(parseLine(data, Take(rest, nl - 1)), Drop(rest, nl))

\* explicit TextAdapter(std::istream&)
TextReader(input) == [NewAdapter("text", FALSE, input) EXCEPT !.data = ReadLines(<<>>, input)]

\* explicit TextAdapter(std::ostream&)
TextWriter == NewAdapter("text", TRUE, <<>>)

TextRoot(ad) ==
    [ad |-> [ad EXCEPT !.nodeCache = {<<>>}, !.arrayIndices = <<>>],
     node |-> PathNode(<<>>)]

ChildPath(node, key) ==
    IF node.path = <<>> THEN key ELSE node.path \o <<ChDot>> \o key

\* a scan that accepts any stored key with the path as a textual prefix
hasDataForPathAnyPrefix(ad, path) ==
    \/ MapHas(ad.data, path)
    \/ \E k \in DOMAIN ad.data : StartsWith(k, path)

hasDataForPath(ad, path) ==
    \/ MapHas(ad.data, path)
    \/ \E k \in DOMAIN ad.data : StartsWith(k, path \o <<ChDot>>)

TextGetChild(ad, node, key) ==
    IF key = <<>> THEN [ad |-> ad, node |-> node]
    ELSE IF ~node.ok THEN [ad |-> [ad EXCEPT !.threw = "null_deref"], node |-> NullNode]
    ELSE LET childPath == ChildPath(node, key)
         IN  IF hasDataForPath(ad, childPath)
             THEN [ad |-> [ad EXCEPT !.nodeCache = @ \cup {childPath}],
                   node |-> PathNode(childPath)]
             ELSE [ad |-> ad, node |-> NullNode]

TextAddChild(ad, node, key) ==
    IF key = <<>> THEN [ad |-> ad, node |-> node]
    ELSE IF ~node.ok THEN [ad |-> [ad EXCEPT !.threw = "null_deref"], node |-> NullNode]
    ELSE LET childPath == ChildPath(node, key)
         IN  [ad |-> [ad EXCEPT !.nodeCache = @ \cup {childPath}],
              node |-> PathNode(childPath)]

TextIsObject(ad, node) ==
    /\ node.ok
    /\ LET prefix == IF node.path = <<>> THEN <<>> ELSE node.path \o <<ChDot>>
       IN  \E k \in DOMAIN ad.data : StartsWith(k, prefix)

CountSuffix == <<ChDot, 99, 111, 117, 110, 116>>   \* ".count"

TextIsArray(ad, node) == node.ok /\ MapHas(ad.data, node.path \o CountSuffix)

\* one line "key = value\n" on the output stream
WriteLine(ad, key, value) ==
    [ad EXCEPT !.out = @ \o key \o <<ChSpace, ChEquals, ChSpace>> \o value \o <<ChLF>>]

\* setArray that writes the count line only for a non-empty array
TextSetArrayNonEmpty(ad, node, size) ==
    IF ~node.ok THEN ad
    ELSE LET countKey == node.path \o CountSuffix
             countValue == StdToString(Lit(size, 8), FALSE)
             a == IF size = 0 THEN ad
                  ELSE IF ad.writing THEN WriteLine(ad, countKey, countValue)
                  ELSE [ad EXCEPT !.data = MapPut(@, countKey, countValue)]
         IN  [a EXCEPT !.arrayIndices = MapPut(@, node.path, 0)]

\* addArrayElement with one running index shared by every array
TextAddArrayElementSharedIndex(ad, node) ==
    IF ~node.ok THEN [ad |-> ad, node |-> NullNode]
    ELSE LET arrayPath == node.path
             currentIndex == IF MapHas(ad.arrayIndices, <<>>)
                             THEN ad.arrayIndices[<<>>] ELSE 0
             elementPath == arrayPath \o <<ChDot>> \o StdToString(Lit(currentIndex, 8), FALSE)
         IN  [ad |-> [ad EXCEPT !.nodeCache = @ \cup {elementPath},
                                !.arrayIndices = MapPut(@, <<>>, currentIndex + 1)],
              node |-> PathNode(elementPath)]

TextSetArray(ad, node, size) ==
    IF ~node.ok THEN ad
    ELSE LET countKey == node.path \o CountSuffix
             countValue == StdToString(Lit(size, 8), FALSE)
             a == IF ad.writing THEN WriteLine(ad, countKey, countValue)
                  ELSE [ad EXCEPT !.data = MapPut(@, countKey, countValue)]
         IN  [a EXCEPT !.arrayIndices = MapPut(@, node.path, 0)]

\* size_t result of std::stoull, or the exception it throws
TextGetArraySize(ad, node) ==
    IF ~node.ok THEN [ad |-> ad, val |-> Zeros(8)]
    ELSE LET countKey == node.path \o CountSuffix
             Size(r) == IF r.status = "ok" THEN [ad |-> ad, val |-> r.val]
                        ELSE [ad |-> [ad EXCEPT !.threw = r.status], val |-> Zeros(8)]
         IN  IF MapHas(ad.data, countKey) THEN Size(Stoull(ad.data[countKey]))
             ELSE [ad |-> ad, val |-> Zeros(8)]

TextGetArrayElement(ad, node, index) ==
    IF ~node.ok THEN [ad |-> ad, node |-> NullNode]
    ELSE LET elementPath == node.path \o <<ChDot>> \o StdToString(Lit(index, 8), FALSE)
         IN  [ad |-> [ad EXCEPT !.nodeCache = @ \cup {elementPath}],
              node |-> PathNode(elementPath)]

TextAddArrayElement(ad, node) ==
    IF ~node.ok THEN [ad |-> ad, node |-> NullNode]
    ELSE LET arrayPath == node.path
             currentIndex == IF MapHas(ad.arrayIndices, arrayPath)
                             THEN ad.arrayIndices[arrayPath] ELSE 0
             elementPath == arrayPath \o <<ChDot>> \o StdToString(Lit(currentIndex, 8), FALSE)
         IN  [ad |-> [ad EXCEPT !.nodeCache = @ \cup {elementPath},
                                !.arrayIndices = MapPut(@, arrayPath, currentIndex + 1)],
              node |-> PathNode(elementPath)]

TrueText == <<116, 114, 117, 101>>         \* "true"
FalseText == <<102, 97, 108, 115, 101>>    \* "false"

\* the string branch of getValue: strip one pair of enclosing quotes
TextUnquote(value) ==
    IF Len(value) >= 2 /\ value[1] = ChQuote /\ Last(value) = ChQuote
    THEN SubSeq(value, 2, Len(value) - 1)
    ELSE value

\* the integral branch of getValue: stoll or stoull, then static_cast<T>
TextParseInt(ad, value, t) ==
    LET Cast(r) == IF r.status = "ok" THEN [ad |-> ad, val |-> Narrow(r.val, t.nbytes)]
                   ELSE [ad |-> [ad EXCEPT !.threw = r.status], val |-> ZeroValue(t)]
    IN  IF t.signed THEN Cast(Stoll(value)) ELSE Cast(Stoull(value))

TextGetValue(ad, node, t) ==
    IF ~node.ok \/ ~MapHas(ad.data, node.path) THEN [ad |-> ad, val |-> ZeroValue(t)]
    ELSE LET value == ad.data[node.path]
         IN  CASE t.kind = "string" -> [ad |-> ad, val |-> TextUnquote(value)]
               [] t.kind = "bool" -> [ad |-> ad, val |-> value = TrueText]
               [] OTHER -> TextParseInt(ad, value, t)

\* the text setValue writes for a value
TextOf(t, v) ==
    CASE t.kind = "string" -> <<ChQuote>> \o v \o <<ChQuote>>
      [] t.kind = "bool" -> IF v THEN TrueText ELSE FalseText
      [] OTHER -> StdToString(v, t.signed)

TextSetValue(ad, node, t, v) ==
    IF ~node.ok THEN ad
    ELSE IF ad.writing THEN WriteLine(ad, node.path, TextOf(t, v))
    ELSE [ad EXCEPT !.data = MapPut(@, node.path, TextOf(t, v))]

\* ---------------------------------------------------- Lazy-JSON: strings
\* "%04x" of an unsigned char
HexDigit(n) == IF n < 10 THEN ChZero + n ELSE 97 + (n - 10)
Hex4(b) == <<ChZero, ChZero, HexDigit(b \div 16), HexDigit(b % 16)>>

\* `ch < 32` on a char: where char is signed the bytes 0x80..0xFF are
\* negative and take the branch too
CharBelow32(ch, charSigned) == ch < 32 \/ (charSigned /\ ch >= 128)

EscapeChar(ch, charSigned) ==
    CASE ch = ChQuote -> <<ChBackslash, ChQuote>>
      [] ch = ChBackslash -> <<ChBackslash, ChBackslash>>
      [] ch = 8 -> <<ChBackslash, 98>>      \* \b
      [] ch = 12 -> <<ChBackslash, 102>>    \* \f
      [] ch = 10 -> <<ChBackslash, 110>>    \* \n
      [] ch = 13 -> <<ChBackslash, 114>>    \* \r
      [] ch = 9 -> <<ChBackslash, 116>>     \* \t
      [] OTHER -> IF CharBelow32(ch, charSigned)
                  THEN <<ChBackslash, 117>> \o Hex4(ch)
                  ELSE <<ch>>

RECURSIVE escapeJsonString(_, _)
escapeJsonString(str, charSigned) ==
    IF str = <<>> THEN <<>>
    ELSE EscapeChar(Head(str), charSigned) \o escapeJsonString(Tail(str), charSigned)

HexVal(c) ==
    IF IsDigit(c) THEN c - ChZero
    ELSE IF c >= 97 /\ c <= 102 THEN c - 87
    ELSE IF c >= 65 /\ c <= 70 THEN c - 55
    ELSE 16

\* the low byte of the leading hex digits of s
RECURSIVE ParseHex(_, _, _)
ParseHex(s, acc, any) ==
    IF s = <<>> \/ HexVal(Head(s)) = 16 THEN [val |-> acc, any |-> any]
    ELSE ParseHex(Tail(s), (acc * 16 + HexVal(Head(s))) % 256, TRUE)

\* static_cast<char>(std::stoul(s, nullptr, 16)): white space, a sign, an
\* optional 0x, hex digits; invalid_argument when there is no digit
StoulHexChar(str) ==
    LET Strip0x(s2) ==
            IF Len(s2) >= 3 /\ s2[1] = ChZero /\ s2[2] \in {120, 88} /\ HexVal(s2[3]) < 16
            THEN Drop(s2, 2) ELSE s2
        Digits(s1, r) ==
            IF ~r.any THEN [status |-> "invalid_argument", val |-> 0]
            ELSE [status |-> "ok", val |-> IF IsNegative(s1) THEN (256 - r.val) % 256 ELSE r.val]
        Signed(s1) == Digits(s1, ParseHex(Strip0x(StripSign(s1)), 0, FALSE))
    IN  Signed(SkipSpaces(str))

\* the plain escapes of unescapeJsonString: the character for \c, 256 if none
SimpleEscape(c) ==
    CASE c = ChQuote -> ChQuote
      [] c = ChBackslash -> ChBackslash
      [] c = ChSlash -> ChSlash
      [] c = 98 -> 8
      [] c = 102 -> 12
      [] c = 110 -> 10
      [] c = 114 -> 13
      [] c = 116 -> 9
      [] OTHER -> 256

\* the bound off by one: a \uXXXX that ends the string is not decoded
UnicodeFitsStrict(i, size) == i + 6 < size

\* does \uXXXX starting at the 0-based index i fit: `i + 5 < str.size()`
UnicodeFits(i, size) == i + 5 < size

\* unescapeJsonString from the 0-based index i on; res is `result` so far
RECURSIVE UnescapeFrom(_, _, _)
UnescapeFrom(str, i, res) ==
    IF i >= Len(str) THEN [status |-> "ok", val |-> res]
    ELSE IF str[i + 1] = ChBackslash /\ i + 1 < Len(str)
    THEN LET c == str[i + 2]
             Decoded(h) == IF h.status = "ok"
                           THEN UnescapeFrom(str, i + 6, res \o <<h.val>>)
                           ELSE [status |-> h.status, val |-> res]
         IN  IF SimpleEscape(c) # 256
             THEN UnescapeFrom(str, i + 2, res \o <<SimpleEscape(c)>>)
             ELSE IF c = 117 /\ UnicodeFits(i, Len(str))
             THEN Decoded(StoulHexChar(SubSeq(str, i + 3, i + 6)))
             ELSE UnescapeFrom(str, i + 1, res \o <<str[i + 1]>>)
    ELSE UnescapeFrom(str, i + 1, res \o <<str[i + 1]>>)

unescapeJsonString(str) == UnescapeFrom(str, 0, <<>>)

\* ------------------------------------------------ Lazy-JSON: DOM and parser
\* JsonValue: type, rawValue, objectChildren (key/child pairs, oldest
\* first) and arrayChildren (child ids)
JsonValue(type) == [type |-> type, rawValue |-> <<>>, objectChildren |-> <<>>, arrayChildren |-> <<>>]

\* std::make_unique<JsonValue>(type): the heap grows by one value
Alloc(dom, type) == [dom |-> Append(dom, JsonValue(type)), id |-> Len(dom) + 1]

RECURSIVE FindKey(_, _, _)
FindKey(pairs, key, i) ==
    IF i > Len(pairs) THEN 0
    ELSE IF pairs[i].key = key THEN i ELSE FindKey(pairs, key, i + 1)

\* objectChildren[key] = child
PutChild(pairs, key, id) ==
    LET i == FindKey(pairs, key, 1)
    IN  IF i = 0 THEN Append(pairs, [key |-> key, id |-> id])
        ELSE [pairs EXCEPT ![i].id = id]

currentChar(inp, pos) == IF pos < Len(inp) THEN inp[pos + 1] ELSE 0

RECURSIVE skipWhitespace(_, _)
skipWhitespace(inp, pos) ==
    IF pos < Len(inp) /\ IsSpace(inp[pos + 1]) THEN skipWhitespace(inp, pos + 1) ELSE pos

\* consumeChar: never moves past the end
consumeChar(inp, pos) == IF pos < Len(inp) THEN pos + 1 ELSE pos

\* input_.substr(pos, n) == word
Holds(inp, pos, word) ==
    pos + Len(word) <= Len(inp) /\ SubSeq(inp, pos + 1, pos + Len(word)) = word

\* input_.substr(startPos, position_ - startPos)
RawFrom(inp, startPos, pos) == SubSeq(inp, startPos + 1, pos)

Leaf(dom, type, raw, pos) ==
    LET a == Alloc(dom, type)
    IN  [dom |-> [a.dom EXCEPT ![a.id].rawValue = raw], id |-> a.id, pos |-> pos]

NullText == <<110, 117, 108, 108>>   \* "null"

parseNull(inp, pos, dom) ==
    LET p == IF Holds(inp, pos, NullText) THEN pos + 4 ELSE pos
    IN  Leaf(dom, "Null", RawFrom(inp, pos, p), p)

parseBool(inp, pos, dom) ==
    LET p == IF Holds(inp, pos, TrueText) THEN pos + 4
             ELSE IF Holds(inp, pos, FalseText) THEN pos + 5 ELSE pos
    IN  Leaf(dom, "Bool", RawFrom(inp, pos, p), p)

\* the body of a string up to, not including, its closing quote
RECURSIVE ScanStringBody(_, _)
ScanStringBody(inp, pos) ==
    LET c == currentChar(inp, pos)
    IN  IF c = ChQuote \/ c = 0 THEN pos
        ELSE IF c = ChBackslash
        THEN LET p1 == consumeChar(inp, pos)
             IN  ScanStringBody(inp, IF currentChar(inp, p1) # 0
                                     THEN consumeChar(inp, p1) ELSE p1)
        ELSE ScanStringBody(inp, consumeChar(inp, pos))

\* the scan stops at the closing quote, at the end of the input or at a raw
\* NUL byte (currentChar gives '\0' for both)
parseString(inp, pos, dom) ==
    LET p == IF currentChar(inp, pos) = ChQuote
             THEN LET b == ScanStringBody(inp, pos + 1)
                  IN  IF currentChar(inp, b) = ChQuote THEN b + 1 ELSE b
             ELSE pos
    IN  Leaf(dom, "String", RawFrom(inp, pos, p), p)

RECURSIVE SkipDigits(_, _)
SkipDigits(inp, pos) ==
    IF IsDigit(currentChar(inp, pos)) THEN SkipDigits(inp, pos + 1) ELSE pos

parseNumber(inp, pos, dom) ==
    LET p1 == IF currentChar(inp, pos) = ChMinus THEN pos + 1 ELSE pos
        p2 == SkipDigits(inp, p1)
        p3 == IF currentChar(inp, p2) = ChDot THEN SkipDigits(inp, p2 + 1) ELSE p2
        e1 == p3 + 1
        e2 == IF currentChar(inp, e1) \in {ChPlus, ChMinus} THEN e1 + 1 ELSE e1
        p4 == IF currentChar(inp, p3) \in {101, 69} THEN SkipDigits(inp, e2) ELSE p3
        p == IF ~IsDigit(currentChar(inp, p1)) THEN p1 ELSE p4
    IN  Leaf(dom, "Number", RawFrom(inp, pos, p), p)

RECURSIVE parseValue(_, _, _)
RECURSIVE ArrayLoop(_, _, _, _)
RECURSIVE ObjectLoop(_, _, _, _)

\* the `while (true)` of parseArray, entered at an element
ArrayLoop(inp, pos, dom, arr) ==
    LET Push(v) ==
            LET d == [v.dom EXCEPT ![arr].arrayChildren = Append(@, v.id)]
                p == skipWhitespace(inp, v.pos)
            IN  IF currentChar(inp, p) = ChRBracket THEN [dom |-> d, id |-> arr, pos |-> p + 1]
                ELSE IF currentChar(inp, p) # ChComma THEN [dom |-> d, id |-> arr, pos |-> p]
                ELSE ArrayLoop(inp, skipWhitespace(inp, p + 1), d, arr)
    IN  Push(parseValue(inp, pos, dom))

parseArray(inp, pos, dom) ==
    LET a == Alloc(dom, "Array")
        p == skipWhitespace(inp, pos + 1)
    IN  IF currentChar(inp, p) = ChRBracket THEN [dom |-> a.dom, id |-> a.id, pos |-> p + 1]
        ELSE ArrayLoop(inp, p, a.dom, a.id)

\* "simple unquoting" of a key's raw text
KeyOf(raw) ==
    IF Len(raw) >= 2 /\ raw[1] = ChQuote /\ Last(raw) = ChQuote
    THEN SubSeq(raw, 2, Len(raw) - 1)
    ELSE raw

\* the `while (true)` of parseObject, entered at a key
ObjectLoop(inp, pos, dom, obj) ==
    LET Put(key, v) ==
            LET d == [v.dom EXCEPT ![obj].objectChildren = PutChild(@, key, v.id)]
                p2 == skipWhitespace(inp, v.pos)
            IN  IF currentChar(inp, p2) = ChRBrace THEN [dom |-> d, id |-> obj, pos |-> p2 + 1]
                ELSE IF currentChar(inp, p2) # ChComma THEN [dom |-> d, id |-> obj, pos |-> p2]
                ELSE ObjectLoop(inp, p2 + 1, d, obj)
        Key(k) ==
            LET p1 == skipWhitespace(inp, k.pos)
            IN  IF currentChar(inp, p1) # ChColon THEN [dom |-> dom, id |-> obj, pos |-> p1]
                ELSE Put(KeyOf(k.dom[k.id].rawValue), parseValue(inp, p1 + 1, dom))
    IN  Key(parseString(inp, skipWhitespace(inp, pos), dom))

parseObject(inp, pos, dom) ==
    LET a == Alloc(dom, "Object")
        p == skipWhitespace(inp, pos + 1)
    IN  IF currentChar(inp, p) = ChRBrace THEN [dom |-> a.dom, id |-> a.id, pos |-> p + 1]
        ELSE ObjectLoop(inp, p, a.dom, a.id)

parseValue(inp, pos0, dom) ==
    LET pos == skipWhitespace(inp, pos0)
        c == currentChar(inp, pos)
    IN  CASE c = 110 -> parseNull(inp, pos, dom)
          [] c \in {116, 102} -> parseBool(inp, pos, dom)
          [] c = ChQuote -> parseString(inp, pos, dom)
          [] c = ChLBracket -> parseArray(inp, pos, dom)
          [] c = ChLBrace -> parseObject(inp, pos, dom)
          [] OTHER -> IF c = ChMinus \/ IsDigit(c) THEN parseNumber(inp, pos, dom)
                      ELSE [dom |-> Alloc(dom, "Null").dom, id |-> Len(dom) + 1, pos |-> pos]

\* JsonParser::parse
parse(inp) == parseValue(inp, skipWhitespace(inp, 0), <<>>)

\* ------------------------------------------------ Lazy-JSON: the adapter
\* LazyJson(): serialization mode, an empty Object as root
JsonWriter(charSigned, hashRev) ==
    [NewAdapter("json", TRUE, <<>>) EXCEPT
        !.dom = <<JsonValue("Object")>>, !.rootId = 1,
        !.charSigned = charSigned, !.hashRev = hashRev]

\* explicit LazyJson(std::istream&)
JsonReader(input) ==
    LET Parsed(r) == [NewAdapter("json", FALSE, input) EXCEPT
                         !.dom = r.dom, !.rootId = r.id, !.sourceEmpty = FALSE]
    IN  IF input = <<>>
        THEN [NewAdapter("json", FALSE, input) EXCEPT !.dom = <<JsonValue("Object")>>, !.rootId = 1]
        ELSE Parsed(parse(input))

isSerializing(ad) == ad.sourceEmpty

JsonRoot(ad) == [ad |-> ad, node |-> IdNode(ad.rootId)]

JsonGetChild(ad, node, key) ==
    IF key = <<>> THEN [ad |-> ad, node |-> node]
    ELSE IF ~node.ok \/ isSerializing(ad) THEN [ad |-> ad, node |-> NullNode]
    ELSE IF ad.dom[node.id].type # "Object" THEN [ad |-> ad, node |-> NullNode]
    ELSE LET pairs == ad.dom[node.id].objectChildren
             i == FindKey(pairs, key, 1)
         IN  [ad |-> ad, node |-> IF i = 0 THEN NullNode ELSE IdNode(pairs[i].id)]

\* addChild that treats the empty key like any other key
JsonAddChildNoEmptyKey(ad, node, key) ==
    IF ~node.ok \/ ~isSerializing(ad) THEN [ad |-> ad, node |-> NullNode]
    ELSE LET a == Alloc(ad.dom, "Null")
             d == [a.dom EXCEPT ![node.id].type = "Object",
                                ![node.id].objectChildren = PutChild(@, key, a.id)]
         IN  [ad |-> [ad EXCEPT !.dom = d], node |-> IdNode(a.id)]

JsonAddChild(ad, node, key) ==
    IF key = <<>> THEN [ad |-> ad, node |-> node]
    ELSE IF ~node.ok \/ ~isSerializing(ad) THEN [ad |-> ad, node |-> NullNode]
    ELSE LET a == Alloc(ad.dom, "Null")
             d == [a.dom EXCEPT ![node.id].type = "Object",
                                ![node.id].objectChildren = PutChild(@, key, a.id)]
         IN  [ad |-> [ad EXCEPT !.dom = d], node |-> IdNode(a.id)]

JsonIsObject(ad, node) == node.ok /\ ad.dom[node.id].type = "Object"

\* setObject dereferences the node without a check
JsonSetObject(ad, node) ==
    IF ~node.ok THEN [ad EXCEPT !.threw = "null_deref"]
    ELSE [ad EXCEPT !.dom[node.id].type = "Object"]

\* isArray without the look at the node's type
JsonIsArrayAnyType(ad, node) == node.ok

JsonIsArray(ad, node) == node.ok /\ ad.dom[node.id].type = "Array"

JsonSetArray(ad, node, size) ==
    IF ~node.ok THEN ad ELSE [ad EXCEPT !.dom[node.id].type = "Array"]

JsonGetArraySize(ad, node) ==
    IF ~node.ok \/ isSerializing(ad) \/ ad.dom[node.id].type # "Array"
    THEN [ad |-> ad, val |-> Zeros(8)]
    ELSE [ad |-> ad, val |-> Lit(Len(ad.dom[node.id].arrayChildren), 8)]

JsonGetArrayElement(ad, node, index) ==
    IF ~node.ok \/ isSerializing(ad) \/ ad.dom[node.id].type # "Array"
    THEN [ad |-> ad, node |-> NullNode]
    ELSE IF index >= Len(ad.dom[node.id].arrayChildren) THEN [ad |-> ad, node |-> NullNode]
    ELSE [ad |-> ad, node |-> IdNode(ad.dom[node.id].arrayChildren[index + 1])]

JsonAddArrayElement(ad, node) ==
    IF ~node.ok \/ ~isSerializing(ad) THEN [ad |-> ad, node |-> NullNode]
    ELSE LET a == Alloc(ad.dom, "Null")
             d == [a.dom EXCEPT ![node.id].type = "Array",
                                ![node.id].arrayChildren = Append(@, a.id)]
         IN  [ad |-> [ad EXCEPT !.dom = d], node |-> IdNode(a.id)]

\* the string branch of getValue
JsonGetString(ad, node) ==
    LET jsonStr == ad.dom[node.id].rawValue
        Unescaped(u) == IF u.status = "ok" THEN [ad |-> ad, val |-> u.val]
                        ELSE [ad |-> [ad EXCEPT !.threw = u.status], val |-> <<>>]
    IN  IF ad.dom[node.id].type = "String" /\ Len(jsonStr) >= 2
           /\ jsonStr[1] = ChQuote /\ Last(jsonStr) = ChQuote
        THEN Unescaped(unescapeJsonString(SubSeq(jsonStr, 2, Len(jsonStr) - 1)))
        ELSE [ad |-> ad, val |-> <<>>]

\* the integral branch of getValue: stoll inside try/catch(...), then
\* static_cast<T>
\* a conversion that gives the default for a number outside T's range
JsonGetIntChecked(ad, node, t) ==
    LET Cast(r) ==
            IF r.status = "ok" /\ Widen(Narrow(r.val, t.nbytes), 8, t.signed) = r.val
            THEN [ad |-> ad, val |-> Narrow(r.val, t.nbytes)]
            ELSE [ad |-> ad, val |-> ZeroValue(t)]
    IN  IF ad.dom[node.id].type = "Number" THEN Cast(Stoll(ad.dom[node.id].rawValue))
        ELSE [ad |-> ad, val |-> ZeroValue(t)]

JsonGetInt(ad, node, t) ==
    LET Cast(r) == IF r.status = "ok" THEN [ad |-> ad, val |-> Narrow(r.val, t.nbytes)]
                   ELSE [ad |-> ad, val |-> ZeroValue(t)]
    IN  IF ad.dom[node.id].type = "Number" THEN Cast(Stoll(ad.dom[node.id].rawValue))
        ELSE [ad |-> ad, val |-> ZeroValue(t)]

JsonGetValue(ad, node, t) ==
    IF ~node.ok THEN [ad |-> ad, val |-> ZeroValue(t)]
    ELSE CASE t.kind = "string" -> JsonGetString(ad, node)
           [] t.kind = "bool" ->
                [ad |-> ad,
                 val |-> ad.dom[node.id].type = "Bool" /\ ad.dom[node.id].rawValue = TrueText]
           [] OTHER -> JsonGetInt(ad, node, t)

JsonSetValue(ad, node, t, v) ==
    IF ~node.ok \/ ~isSerializing(ad) THEN ad
    ELSE CASE t.kind = "string" ->
                [ad EXCEPT !.dom[node.id].type = "String",
                           !.dom[node.id].rawValue =
                               <<ChQuote>> \o escapeJsonString(v, ad.charSigned) \o <<ChQuote>>]
           [] t.kind = "bool" ->
                [ad EXCEPT !.dom[node.id].type = "Bool",
                           !.dom[node.id].rawValue = IF v THEN TrueText ELSE FalseText]
           [] OTHER ->
                [ad EXCEPT !.dom[node.id].type = "Number",
                           !.dom[node.id].rawValue = StdToString(v, t.signed)]

RECURSIVE valueToJsonString(_, _)
RECURSIVE ArrayToJson(_, _, _)
RECURSIVE ObjectToJson(_, _, _)

ArrayToJson(ad, ids, i) ==
    IF i > Len(ids) THEN <<>>
    ELSE (IF i > 1 THEN <<ChComma>> ELSE <<>>)
         \o valueToJsonString(ad, ids[i]) \o ArrayToJson(ad, ids, i + 1)

ObjectToJson(ad, pairs, i) ==
    IF i > Len(pairs) THEN <<>>
    ELSE (IF i > 1 THEN <<ChComma>> ELSE <<>>)
         \o <<ChQuote>> \o escapeJsonString(pairs[i].key, ad.charSigned) \o <<ChQuote, ChColon>>
         \o valueToJsonString(ad, pairs[i].id) \o ObjectToJson(ad, pairs, i + 1)

valueToJsonString(ad, id) ==
    LET v == ad.dom[id]
    IN  CASE v.type = "Null" -> NullText
          [] v.type \in {"Bool", "Number", "String"} -> v.rawValue
          [] v.type = "Array" ->
                <<ChLBracket>> \o ArrayToJson(ad, v.arrayChildren, 1) \o <<ChRBracket>>
          [] OTHER ->
                <<ChLBrace>>
                \o ObjectToJson(ad, IF ad.hashRev THEN Reverse(v.objectChildren)
                                    ELSE v.objectChildren, 1)
                \o <<ChRBrace>>

\* LazyJsonAdapter::finishSerialization
JsonFinish(ad) == [ad EXCEPT !.out = @ \o valueToJsonString(ad, ad.rootId)]

\* ------------------------------------------ the adapter contract, by kind
\* AdapterType::f(...) as the template instantiation resolves it.
Root(ad) ==
    CASE ad.kind = "binary" -> [ad |-> ad, node |-> BinaryNode]
      [] ad.kind = "text" -> TextRoot(ad)
      [] OTHER -> JsonRoot(ad)

GetChild(ad, node, key) ==
    CASE ad.kind = "binary" -> [ad |-> ad, node |-> BinaryNode]
      [] ad.kind = "text" -> TextGetChild(ad, node, key)
      [] OTHER -> JsonGetChild(ad, node, key)

AddChild(ad, node, key) ==
    CASE ad.kind = "binary" -> [ad |-> ad, node |-> BinaryNode]
      [] ad.kind = "text" -> TextAddChild(ad, node, key)
      [] OTHER -> JsonAddChild(ad, node, key)

IsObject(ad, node) ==
    CASE ad.kind = "binary" -> TRUE
      [] ad.kind = "text" -> TextIsObject(ad, node)
      [] OTHER -> JsonIsObject(ad, node)

SetObject(ad, node) ==
    CASE ad.kind = "binary" -> ad
      [] ad.kind = "text" -> ad
      [] OTHER -> JsonSetObject(ad, node)

IsArray(ad, node) ==
    CASE ad.kind = "binary" -> TRUE
      [] ad.kind = "text" -> TextIsArray(ad, node)
      [] OTHER -> JsonIsArray(ad, node)

SetArray(ad, node, size) ==
    CASE ad.kind = "binary" -> BinarySetArray(ad, node, size)
      [] ad.kind = "text" -> TextSetArray(ad, node, size)
      [] OTHER -> JsonSetArray(ad, node, size)

GetArraySize(ad, node) ==
    CASE ad.kind = "binary" -> BinaryGetArraySize(ad, node)
      [] ad.kind = "text" -> TextGetArraySize(ad, node)
      [] OTHER -> JsonGetArraySize(ad, node)

GetArrayElement(ad, node, index) ==
    CASE ad.kind = "binary" -> [ad |-> ad, node |-> node]
      [] ad.kind = "text" -> TextGetArrayElement(ad, node, index)
      [] OTHER -> JsonGetArrayElement(ad, node, index)

AddArrayElement(ad, node) ==
    CASE ad.kind = "binary" -> [ad |-> ad, node |-> node]
      [] ad.kind = "text" -> TextAddArrayElement(ad, node)
      [] OTHER -> JsonAddArrayElement(ad, node)

GetValue(ad, node, t) ==
    CASE ad.kind = "binary" -> BinaryGetValue(ad, node, t)
      [] ad.kind = "text" -> TextGetValue(ad, node, t)
      [] OTHER -> JsonGetValue(ad, node, t)

SetValue(ad, node, t, v) ==
    CASE ad.kind = "binary" -> BinarySetValue(ad, node, t, v)
      [] ad.kind = "text" -> TextSetValue(ad, node, t, v)
      [] OTHER -> JsonSetValue(ad, node, t, v)

finishSerialization(ad) == IF ad.kind = "json" THEN JsonFinish(ad) ELSE ad

\* --------------------------------------------- Serializer<ValueType, Adapter>
\* serialize returns the adapter after the call; deserialize returns the
\* adapter and the value now stored at *value.  An exception in flight
\* (ad.threw) unwinds: nothing further is written or assigned.
RECURSIVE SerializeValue(_, _, _, _, _)
RECURSIVE SerializeItems(_, _, _, _, _)
RECURSIVE SerializeFields(_, _, _, _, _)
RECURSIVE SerializeSealedFields(_, _, _, _, _)

\* Serializable::serialize(adapter, node): the loop over serializationFields_
SerializeFields(t, v, ad, node, i) ==
    IF i > Len(t.fields) \/ ad.threw # "" THEN ad
    ELSE SerializeFields(t, v,
             SerializeValue(t.fields[i].type, v[i], ad, node, t.fields[i].name), node, i + 1)

\* SERIALIZABLE_TYPE_SERIALIZE_FIELD, once per listed field
SerializeSealedFields(t, v, ad, node, i) ==
    IF i > Len(t.fields) \/ ad.threw # "" THEN ad
    ELSE LET Set(f) == SetValue(f.ad, f.node, t.fields[i].type, v[i])
         IN  SerializeSealedFields(t, v, Set(AddChild(ad, node, t.fields[i].name)), node, i + 1)

\* the range-for of Serializer<std::vector<T>>::serialize
SerializeItems(t, items, ad, node, i) ==
    IF i > Len(items) \/ ad.threw # "" THEN ad
    ELSE LET Element(e) == SerializeValue(t, items[i], e.ad, e.node, <<>>)
         IN  SerializeItems(t, items, Element(AddArrayElement(ad, node)), node, i + 1)

SerializeValue(t, v, ad, node, key) ==
    LET Child(c) ==
            CASE IsScalar(t) -> SetValue(c.ad, c.node, t, v)
              [] t.kind = "vec" ->
                    SerializeItems(t.elem, v, SetArray(c.ad, c.node, Len(v)), c.node, 1)
              [] t.kind = "obj" ->
                    SerializeFields(t, v, SetObject(c.ad, c.node), c.node, 1)
              [] OTHER ->
                    SerializeSealedFields(t, v, SetObject(c.ad, c.node), c.node, 1)
    IN  IF ad.threw # "" THEN ad
        \* Serializer of a MultiSerializable T, entered from a registry closure
        \* with the registry's mutex held: its registration or its first
        \* dispatch locks that mutex again
        ELSE IF t.kind = "multi" THEN [ad EXCEPT !.threw = "relock"]
        ELSE Child(AddChild(ad, node, key))

RECURSIVE DeserializeValue(_, _, _, _, _)
RECURSIVE DeserializeItems(_, _, _, _, _)
RECURSIVE DeserializeItemsShifted(_, _, _, _, _)
RECURSIVE DeserializeFields(_, _, _, _, _)
RECURSIVE DeserializeSealedFields(_, _, _, _, _)

\* Serializable::deserialize(adapter, node)
DeserializeFields(t, cur, ad, node, i) ==
    IF i > Len(t.fields) \/ ad.threw # "" THEN [ad |-> ad, val |-> cur]
    ELSE LET Store(r) == DeserializeFields(t, [cur EXCEPT ![i] = r.val], r.ad, node, i + 1)
         IN  Store(DeserializeValue(t.fields[i].type, cur[i], ad, node, t.fields[i].name))

\* SERIALIZABLE_TYPE_DESERIALIZE_FIELD, once per listed field
DeserializeSealedFields(t, cur, ad, node, i) ==
    IF i > Len(t.fields) \/ ad.threw # "" THEN [ad |-> ad, val |-> cur]
    ELSE LET Store(g) ==
                 IF g.ad.threw # "" THEN [ad |-> g.ad, val |-> cur]
                 ELSE DeserializeSealedFields(t, [cur EXCEPT ![i] = g.val], g.ad, node, i + 1)
             Child(f) ==
                 IF f.ad.threw # "" THEN [ad |-> f.ad, val |-> cur]
                 ELSE IF ~f.node.ok THEN DeserializeSealedFields(t, cur, f.ad, node, i + 1)
                 ELSE Store(GetValue(f.ad, f.node, t.fields[i].type))
         IN  Child(GetChild(ad, node, t.fields[i].name))

\* the index loop of Serializer<std::vector<T>>::deserialize
\* a loop that takes element i from slot i + 1
DeserializeItemsShifted(t, vec, ad, node, i) ==
    IF i >= Len(vec) \/ ad.threw # "" THEN [ad |-> ad, val |-> vec]
    ELSE LET Store(r) ==
                 DeserializeItemsShifted(t, [vec EXCEPT ![i + 1] = r.val], r.ad, node, i + 1)
             Element(e) == Store(DeserializeValue(t, vec[i + 1], e.ad, e.node, <<>>))
         IN  Element(GetArrayElement(ad, node, i + 1))

DeserializeItems(t, vec, ad, node, i) ==
    IF i >= Len(vec) \/ ad.threw # "" THEN [ad |-> ad, val |-> vec]
    ELSE LET Store(r) == DeserializeItems(t, [vec EXCEPT ![i + 1] = r.val], r.ad, node, i + 1)
             Element(e) == Store(DeserializeValue(t, vec[i + 1], e.ad, e.node, <<>>))
         IN  Element(GetArrayElement(ad, node, i))

\* vector.clear(); vector.resize(adapter.getArraySize(childNode)); the loop
DeserializeVector(t, ad, node) ==
    LET Resized(n) ==
            IF n.ad.threw # "" THEN [ad |-> n.ad, val |-> <<>>]
            ELSE IF ~IsSmallNum(n.val)
            THEN [ad |-> [n.ad EXCEPT !.threw = "length_error"], val |-> <<>>]
            ELSE DeserializeItems(t.elem, [k \in 1..SmallNat(n.val) |-> FreshValue(t.elem)],
                                  n.ad, node, 0)
    IN  Resized(GetArraySize(ad, node))

DeserializeValue(t, cur, ad, node, key) ==
    LET Got(g) == [ad |-> g.ad, val |-> IF g.ad.threw # "" THEN cur ELSE g.val]
        Child(c) ==
            IF c.ad.threw # "" \/ ~c.node.ok THEN [ad |-> c.ad, val |-> cur]
            ELSE CASE IsScalar(t) -> Got(GetValue(c.ad, c.node, t))
                   [] t.kind = "vec" ->
                        IF IsArray(c.ad, c.node) THEN DeserializeVector(t, c.ad, c.node)
                        ELSE [ad |-> c.ad, val |-> cur]
                   [] t.kind = "obj" ->
                        IF IsObject(c.ad, c.node)
                        THEN DeserializeFields(t, cur, c.ad, c.node, 1)
                        ELSE [ad |-> c.ad, val |-> cur]
                   [] OTHER ->
                        IF IsObject(c.ad, c.node)
                        THEN DeserializeSealedFields(t, cur, c.ad, c.node, 1)
                        ELSE [ad |-> c.ad, val |-> cur]
    IN  IF ad.threw # "" THEN [ad |-> ad, val |-> cur]
        ELSE IF t.kind = "multi" THEN [ad |-> [ad EXCEPT !.threw = "relock"], val |-> cur]
        ELSE Child(GetChild(ad, node, key))

\* ------------------------------------- Serializable<ConcreteT, AdapterT>
Writer(kind, charSigned, hashRev) ==
    CASE kind = "binary" -> NewAdapter("binary", TRUE, <<>>)
      [] kind = "text" -> TextWriter
      [] OTHER -> JsonWriter(charSigned, hashRev)

Reader(kind, input) ==
    CASE kind = "binary" -> NewAdapter("binary", FALSE, input)
      [] kind = "text" -> TextReader(input)
      [] OTHER -> JsonReader(input)

\* void serialize(std::ostream&) const: the adapter when the call returns
serialize(kind, t, v, charSigned, hashRev) ==
    LET From(r) == finishSerialization(SerializeFields(t, v, r.ad, r.node, 1))
    IN  From(Root(Writer(kind, charSigned, hashRev)))

\* void deserialize(std::istream&): the adapter and *this when the call
\* returns or unwinds
deserialize(kind, t, cur, input) ==
    LET From(r) == DeserializeFields(t, cur, r.ad, r.node, 1)
    IN  From(Root(Reader(kind, input)))

\* ------------------------------------------------------ the test classes
N_id == <<105, 100>>                       \* "id"
N_name == <<110, 97, 109, 101>>            \* "name"
N_active == <<97, 99, 116, 105, 118, 101>> \* "active"
N_label == <<108, 97, 98, 101, 108>>       \* "label"
N_count == <<99, 111, 117, 110, 116>>      \* "count"
N_title == <<116, 105, 116, 108, 101>>     \* "title"
N_child == <<99, 104, 105, 108, 100>>      \* "child"
N_numbers == <<110, 117, 109, 115>>        \* "nums"
N_external == <<101, 120, 116>>            \* "ext"
N_grid == <<103, 114, 105, 100>>           \* "grid"
N_items == <<105, 116, 101, 109, 115>>     \* "items"
N_tags == <<116, 97, 103, 115>>            \* "tags"
N_i8 == <<105, 56>>                        \* "i8"
N_u16 == <<117, 49, 54>>                   \* "u16"
N_i64 == <<105, 54, 52>>                   \* "i64"
N_u64 == <<117, 54, 52>>                   \* "u64"
N_value == <<118, 97, 108, 117, 101>>     \* "value"
S_test == <<116, 101, 115, 116>>           \* "test"
S_ext == <<101, 120>>                      \* "ex"

Int32 == TInt(4, TRUE)

\* class TestClass: SERIALIZABLE_FIELD(int, id, 1), (std::string, name,
\* "test"), (bool, active, true)
TestClass ==
    TObj(<<Field(N_id, Int32, Lit(1, 4)),
           Field(N_name, TString, S_test),
           Field(N_active, TBool, TRUE)>>)

\* class ExternalClass { std::string label = "ex"; int count = 0; } with
\* SERIALIZABLE_TYPE(Adapter, ExternalClass, label, count)
ExternalClass ==
    TSealed(<<Field(N_label, TString, S_ext), Field(N_count, Int32, Lit(0, 4))>>)

\* class NestedClass: a string, a nested Serializable, a vector<int> and a
\* sealed member
NestedClass ==
    TObj(<<Field(N_title, TString, S_test),
           Field(N_child, TestClass, DefaultValue(TestClass)),
           Field(N_numbers, TVec(Int32), <<>>),
           Field(N_external, ExternalClass, DefaultValue(ExternalClass))>>)

\* class GridClass: vector<vector<int>> and vector<std::string>
GridClass ==
    TObj(<<Field(N_grid, TVec(TVec(Int32)), <<>>),
           Field(N_tags, TVec(TString), <<>>)>>)

\* class ItemsClass: vector<TestClass> and vector<ExternalClass>
ItemsClass ==
    TObj(<<Field(N_items, TVec(TestClass), <<>>),
           Field(N_external, TVec(ExternalClass), <<>>)>>)

\* class WidthsClass: int8_t, uint16_t, int64_t, uint64_t members
WidthsClass ==
    TObj(<<Field(N_i8, TInt(1, TRUE), Lit(0, 1)),
           Field(N_u16, TInt(2, FALSE), Lit(0, 2)),
           Field(N_i64, TInt(8, TRUE), Lit(0, 8)),
           Field(N_u64, TInt(8, FALSE), Lit(0, 8))>>)

\* class StringClass: one std::string member
StringClass == TObj(<<Field(N_name, TString, S_test)>>)

\* class PairClass: SERIALIZABLE_FIELD(int, value, 0), (std::string, name, "")
PairClass ==
    TObj(<<Field(N_value, Int32, Lit(0, 4)), Field(N_name, TString, <<>>)>>)

N_nested == <<110, 101, 115, 116>>         \* "nest"
N_sealed == <<115, 101, 97, 108>>          \* "seal"
N_score == <<115, 99, 111, 114, 101>>      \* "score"

\* class MultiSimpleClass: MULTI_SERIALIZABLE_FIELD(std::string, name, ...),
\* (int, id, 100)
MultiSimpleClass ==
    TMulti(<<Field(N_name, TString, S_test), Field(N_id, Int32, Lit(100, 4))>>)

\* class MultiComplexClass: a string, an int, a vector<int>, a nested
\* MultiSimpleClass and a sealed member
MultiComplexClass ==
    TMulti(<<Field(N_name, TString, S_test),
             Field(N_score, Int32, Lit(85, 4)),
             Field(N_numbers, TVec(Int32), <<>>),
             Field(N_nested, MultiSimpleClass, DefaultValue(MultiSimpleClass)),
             Field(N_sealed, ExternalClass, DefaultValue(ExternalClass))>>)

\* class ComplexMultiClass: vector<ExternalMultiClass>, vector<std::string>,
\* a string and an int
ComplexMultiClass ==
    TMulti(<<Field(N_external, TVec(ExternalClass), <<>>),
             Field(N_tags, TVec(TString), <<>>),
             Field(N_name, TString, S_test),
             Field(N_count, Int32, Lit(0, 4))>>)

\* a class with MULTI_SERIALIZABLE_FIELD(std::vector<MultiSimpleClass>, items)
MultiItemsClass == TMulti(<<Field(N_items, TVec(MultiSimpleClass), <<>>)>>)

\* ------------------------------------------------------- input values
\* The characters strings are built from: a control character that has no
\* short escape, line feed, space, '"', '#', '=', '\', 'a', 'u' and a
\* non-ASCII byte.
Alphabet == {1, ChLF, ChSpace, ChQuote, ChHash, ChEquals, ChBackslash, 97, 117, 233}

RECURSIVE StringsUpTo(_)
StringsUpTo(n) ==
    IF n = 0 THEN {<<>>}
    ELSE LET shorter == StringsUpTo(n - 1)
         IN  shorter \cup {Append(s, c) : s \in shorter, c \in Alphabet}

\* 0, 42, the largest and smallest signed value, and all ones (-1 or the
\* largest unsigned value)
IntPatterns(nbytes) ==
    {Lit(0, nbytes), Lit(42, nbytes), Lit(-1, nbytes),
     <<127>> \o Tail(Lit(-1, nbytes)), <<128>> \o Tail(Lit(0, nbytes))}

RECURSIVE SeqsUpTo(_, _)
SeqsUpTo(S, n) ==
    IF n = 0 THEN {<<>>}
    ELSE LET shorter == SeqsUpTo(S, n - 1)
         IN  shorter \cup {Append(s, e) : s \in shorter, e \in S}

S_aq == <<97, ChQuote>>                    \* a"

\* instances of the classes
StringInstances == {<<s>> : s \in StringsUpTo(MaxStrLen)}

WidthsInstances ==
    {<<a, b, c, d>> : a \in IntPatterns(1), b \in IntPatterns(2),
                      c \in IntPatterns(8), d \in IntPatterns(8)}

TestInstances == {<<i, s, TRUE>> : i \in {Lit(42, 4), Lit(-1, 4)}, s \in {<<>>, S_aq}}

ExternalInstances == {<<S_aq, Lit(-1, 4)>>, <<<<>>, Lit(42, 4)>>}

NestedInstances ==
    {<<t, c, n, e>> : t \in {<<>>, S_aq}, c \in TestInstances,
                      n \in SeqsUpTo({Lit(42, 4), Lit(-1, 4)}, MaxVecLen),
                      e \in ExternalInstances}

GridInstances ==
    {<<g, t>> : g \in SeqsUpTo(SeqsUpTo({Lit(42, 4)}, MaxVecLen), MaxVecLen),
                t \in SeqsUpTo({S_aq}, MaxVecLen)}

ItemsInstances ==
    {<<i, e>> : i \in SeqsUpTo({<<Lit(42, 4), S_aq, TRUE>>, <<Lit(-1, 4), <<>>, FALSE>>}, MaxVecLen),
                e \in SeqsUpTo(ExternalInstances, MaxVecLen)}

S_hi == <<104, 105>>                      \* "hi"

PairInstances == {<<Lit(42, 4), S_hi>>, <<Lit(-1, 4), <<>>>>}

\* the classes a run can start from, by name
ClassNames ==
    {"StringClass", "WidthsClass", "NestedClass", "GridClass", "ItemsClass", "PairClass"}

TypeOf(name) ==
    CASE name = "StringClass" -> StringClass
      [] name = "WidthsClass" -> WidthsClass
      [] name = "NestedClass" -> NestedClass
      [] name = "GridClass" -> GridClass
      [] name = "ItemsClass" -> ItemsClass
      [] name = "TestClass" -> TestClass
      [] name = "PairClass" -> PairClass
      [] name = "MultiSimpleClass" -> MultiSimpleClass
      [] name = "MultiComplexClass" -> MultiComplexClass
      [] name = "ComplexMultiClass" -> ComplexMultiClass
      [] name = "MultiItemsClass" -> MultiItemsClass

\* objects of the MultiSerializable classes with their fields assigned
MultiSimpleInstances == {DefaultValue(MultiSimpleClass), <<S_hi, Lit(200, 4)>>}

MultiComplexInstances ==
    {<<S_hi, Lit(95, 4), nums, nested, <<S_hi, Lit(7, 4)>>>> :
        nums \in {<<>>, <<Lit(10, 4)>>}, nested \in MultiSimpleInstances}

ComplexMultiInstances ==
    {<<externals, tags, name, Lit(-1, 4)>> :
        externals \in {<<>>, <<<<S_hi, Lit(7, 4)>>>>},
        tags \in {<<>>, <<S_aq>>},
        name \in {<<>>, S_hi, <<ChLF>>}}

MultiItemsInstances == {<<items>> : items \in {<<>>, <<<<S_hi, Lit(200, 4)>>>>}}

InstancesOf(name) ==
    CASE name = "StringClass" -> StringInstances
      [] name = "WidthsClass" -> WidthsInstances
      [] name = "NestedClass" -> NestedInstances
      [] name = "GridClass" -> GridInstances
      [] name = "ItemsClass" -> ItemsInstances
      [] name = "TestClass" -> TestInstances
      [] name = "PairClass" -> PairInstances
      [] name = "MultiSimpleClass" -> MultiSimpleInstances
      [] name = "MultiComplexClass" -> MultiComplexInstances
      [] name = "ComplexMultiClass" -> ComplexMultiInstances
      [] name = "MultiItemsClass" -> MultiItemsInstances

\* ------------------------------------------------------------- the state
VARIABLES
    pc,          \* "constructed", "serialized", "deserialized", "reserialized"
    kind,        \* the adapter the class is bound to
    ty,          \* the class, by name
    x,           \* the instance that is serialized
    stream,      \* the stream serialize wrote / deserialize reads
    y,           \* the instance that is deserialized into
    y0,          \* y as it was before deserialize
    threw,       \* the exception deserialize let escape, "" for none
    consumed,    \* the input's read position when deserialize returned
    pastEnd,     \* a read was attempted past the end of the input
    stream2,     \* what serializing y wrote
    charSigned,  \* the platform's char is signed
    hashRev,     \* the iteration order of std::unordered_map
    adapter,     \* an adapter instance its caller drives directly
    nodes,       \* the nodes that adapter has handed out
    last,        \* the last call made on it, with the adapter before the call
    reg,         \* the process-wide field lists, once flags, registries, mutexes
    calls,       \* the field codecs the last serialize/deserialize invoked
    parser       \* a JsonParser in the middle of parse(), with its call stack

vars == <<pc, kind, ty, x, stream, y, y0, threw, consumed, pastEnd, stream2,
          charSigned, hashRev, adapter, nodes, last, reg, calls, parser>>

\* the variables of a round trip, of a directly driven adapter or parser, and of the
\* process-wide registration
tripVars == <<pc, kind, ty, x, stream, y, y0, threw, consumed, pastEnd, stream2,
              charSigned, hashRev>>
apiVars == <<adapter, nodes, last, parser>>
regVars == <<reg, calls>>

\* no adapter is driven directly, nothing is registered
NoCall == [op |-> "", n |-> 0]
ApiIdle == adapter = <<>> /\ nodes = {} /\ last = NoCall /\ parser = <<>>
RegIdle == reg = <<>> /\ calls = <<>>

\* an instance x has been constructed; y is a freshly constructed instance
InitRoundTrip(k) ==
    /\ pc = "constructed"
    /\ kind = k
    /\ ty \in ClassNames
    /\ x \in InstancesOf(ty)
    /\ y = DefaultValue(TypeOf(ty))
    /\ y0 = y
    /\ stream = <<>>
    /\ stream2 = <<>>
    /\ threw = ""
    /\ consumed = 0
    /\ pastEnd = FALSE
    /\ charSigned \in (IF k = "json" THEN BOOLEAN ELSE {FALSE})
    /\ hashRev \in (IF k = "json" THEN BOOLEAN ELSE {FALSE})
    /\ ApiIdle /\ RegIdle

\* x.serialize(stream)
Serialize ==
    /\ pc = "constructed"
    /\ stream' = serialize(kind, TypeOf(ty), x, charSigned, hashRev).out
    /\ pc' = "serialized"
    /\ UNCHANGED <<kind, ty, x, y, y0, threw, consumed, pastEnd, stream2, charSigned, hashRev>>
    /\ UNCHANGED <<apiVars, regVars>>

\* y.deserialize(stream)
Deserialize ==
    /\ pc \in {"serialized", "document"}
    /\ LET Returned(r) ==
               /\ y' = r.val
               /\ threw' = r.ad.threw
               /\ consumed' = r.ad.pos
               /\ pastEnd' = r.ad.pastEnd
       IN  Returned(deserialize(kind, TypeOf(ty), y, stream))
    /\ y0' = y
    /\ pc' = "deserialized"
    /\ UNCHANGED <<kind, ty, x, stream, stream2, charSigned, hashRev>>
    /\ UNCHANGED <<apiVars, regVars>>

\* y.serialize(stream2)
Reserialize ==
    /\ pc = "deserialized"
    /\ threw = ""
    /\ stream2' = serialize(kind, TypeOf(ty), y, charSigned, hashRev).out
    /\ pc' = "reserialized"
    /\ UNCHANGED <<kind, ty, x, stream, y, y0, threw, consumed, pastEnd, charSigned, hashRev>>
    /\ UNCHANGED <<apiVars, regVars>>

NextRoundTrip == Serialize \/ Deserialize \/ Reserialize

SpecBinary == InitRoundTrip("binary") /\ [][NextRoundTrip]_vars
SpecText == InitRoundTrip("text") /\ [][NextRoundTrip]_vars
SpecJson == InitRoundTrip("json") /\ [][NextRoundTrip]_vars

\* ------------------------------------------------ documents from outside
\* Input that no serialize call wrote: hand-written Text and JSON documents
\* with fields left out, of the wrong type, or not parseable.
D_7 == <<55>>                                                 \* 7
D_5 == <<53>>                                                 \* 5
D_abc == <<97, 98, 99>>                                       \* abc
D_12abc == <<49, 50, 97, 98, 99>>                             \* 12abc
\* 99999999999999999999
D_big == <<57, 57, 57, 57, 57, 57, 57, 57, 57, 57, 57, 57, 57, 57, 57, 57, 57, 57, 57, 57>>
D_qa == <<ChQuote, 97, ChQuote>>                              \* "a"
D_qb == <<ChQuote, 98, ChQuote>>                              \* "b"
D_qx == <<ChQuote, 120, ChQuote>>                             \* "x"
D_maybe == <<109, 97, 121, 98, 101>>                          \* maybe
D_minus1 == <<ChMinus, 49>>                                   \* -1
D_badEscape == <<ChQuote, ChBackslash, 117, 122, 122, 122, 122, ChQuote>>   \* "\uzzzz"
D_e9Escape == <<ChQuote, ChBackslash, 117, 48, 48, 101, 57, ChQuote>>       \* "é"

\* one line of a Text document
TextLine(key, value) == key \o <<ChSpace, ChEquals, ChSpace>> \o value \o <<ChLF>>

Dotted(a, b) == a \o <<ChDot>> \o b

\* the lines a Text document may hold for TestClass's fields
TextTestDocs ==
    {a \o b \o c :
        a \in {<<>>, TextLine(N_id, D_7), TextLine(N_id, D_abc), TextLine(N_id, D_big),
               TextLine(N_id, D_12abc), <<ChHash>> \o TextLine(N_id, D_7)},
        b \in {<<>>, TextLine(N_name, D_qa), TextLine(N_name, D_abc)},
        c \in {<<>>, TextLine(N_active, FalseText), TextLine(N_active, D_maybe)}}

\* and for NestedClass's
TextNestedDocs ==
    {a \o b \o c \o d :
        a \in {<<>>, TextLine(N_title, D_qa)},
        b \in {<<>>, TextLine(Dotted(N_child, N_id), D_7),
               TextLine(Dotted(N_child, N_id), D_abc)},
        c \in {<<>>,
               TextLine(Dotted(N_numbers, N_count), <<49>>) \o TextLine(Dotted(N_numbers, <<48>>), D_5),
               TextLine(Dotted(N_numbers, N_count), <<50>>) \o TextLine(Dotted(N_numbers, <<48>>), D_5),
               TextLine(Dotted(N_numbers, N_count), D_qx),
               TextLine(Dotted(N_numbers, N_count), D_minus1),
               TextLine(Dotted(N_numbers, <<48>>), D_5)},
        d \in {<<>>, TextLine(Dotted(N_external, N_label), D_qb),
               TextLine(Dotted(N_external, N_count), D_abc)}}

\* "key":value
Member(key, value) == <<ChQuote>> \o key \o <<ChQuote, ChColon>> \o value

Braced(body) == <<ChLBrace>> \o body \o <<ChRBrace>>
Bracketed(body) == <<ChLBracket>> \o body \o <<ChRBracket>>

\* the members that are there, separated by commas
RECURSIVE JoinMembers(_)
JoinMembers(ms) ==
    IF ms = <<>> THEN <<>>
    ELSE IF Head(ms) = <<>> THEN JoinMembers(Tail(ms))
    ELSE LET rest == JoinMembers(Tail(ms))
         IN  IF rest = <<>> THEN Head(ms) ELSE Head(ms) \o <<ChComma>> \o rest

\* JSON documents for TestClass: well-formed objects, then empty, truncated
\* and non-object input
JsonTestDocs ==
    {Braced(JoinMembers(<<a, b, c>>)) :
        a \in {<<>>, Member(N_id, D_7), Member(N_id, D_qx), Member(N_id, D_big),
               Member(N_id, <<ChMinus>>), Member(N_id, NullText)},
        b \in {<<>>, Member(N_name, D_qa), Member(N_name, D_5),
               Member(N_name, D_badEscape), Member(N_name, D_e9Escape)},
        c \in {<<>>, Member(N_active, FalseText), Member(N_active, D_qx)}}
    \cup {<<>>, Bracketed(<<>>), <<ChLBrace>>, <<ChLBrace>> \o Member(N_id, D_7),
          <<ChLBrace>> \o Member(N_name, <<ChQuote, 97>>), Take(NullText, 3)}

\* JSON documents for NestedClass
JsonNestedDocs ==
    {Braced(JoinMembers(<<a, b, c, d>>)) :
        a \in {<<>>, Member(N_title, D_qa)},
        b \in {<<>>, Member(N_child, Braced(Member(N_id, D_7))), Member(N_child, D_5),
               Member(N_child, Braced(Member(N_id, D_qx)))},
        c \in {<<>>, Member(N_numbers, Bracketed(D_5)), Member(N_numbers, D_5),
               Member(N_numbers, Bracketed(D_qx \o <<ChComma>> \o D_7)),
               Member(N_numbers, D_qx)},
        d \in {<<>>, Member(N_external, Braced(Member(N_label, D_qb))),
               Member(N_external, D_qx),
               Member(N_external, Braced(Member(N_count, TrueText)))}}

DocClassNames == {"TestClass", "NestedClass"}

DocumentsOf(k, name) ==
    CASE k = "text" /\ name = "TestClass" -> TextTestDocs
      [] k = "text" /\ name = "NestedClass" -> TextNestedDocs
      [] k = "json" /\ name = "TestClass" -> JsonTestDocs
      [] k = "json" /\ name = "NestedClass" -> JsonNestedDocs

\* an instance that was given values before deserialize is called on it
AssignedInstance(name) ==
    CASE name = "TestClass" -> <<Lit(42, 4), S_aq, TRUE>>
      [] name = "NestedClass" ->
            <<S_aq, <<Lit(42, 4), S_aq, TRUE>>, <<Lit(42, 4), Lit(-1, 4)>>, <<S_aq, Lit(-1, 4)>>>>

\* the instance deserialize is called on: freshly constructed, or assigned
InitDocument(k) ==
    /\ pc = "document"
    /\ kind = k
    /\ ty \in DocClassNames
    /\ stream \in DocumentsOf(k, ty)
    /\ y \in {DefaultValue(TypeOf(ty)), AssignedInstance(ty)}
    /\ y0 = y
    /\ x = y
    /\ stream2 = <<>>
    /\ threw = ""
    /\ consumed = 0
    /\ pastEnd = FALSE
    /\ charSigned = FALSE
    /\ hashRev = FALSE
    /\ ApiIdle /\ RegIdle

NextDocument == Deserialize \/ Reserialize

SpecTextDocs == InitDocument("text") /\ [][NextDocument]_vars
SpecJsonDocs == InitDocument("json") /\ [][NextDocument]_vars
SpecDocs == (InitDocument("text") \/ InitDocument("json")) /\ [][NextDocument]_vars

\* --------------------------------------------- JSON numbers of any size
\* decimal digits as characters
Digits(ds) == [i \in 1..Len(ds) |-> ChZero + ds[i]]
Minus(text) == <<ChMinus>> \o text

\* a number as it stands in a document, with its value as a signed 64-bit
\* integer where it has one
InRange(text, i64) == [text |-> text, fits |-> TRUE, i64 |-> i64]
OutOfRange(text) == [text |-> text, fits |-> FALSE, i64 |-> Zeros(8)]

NumberCases ==
    {InRange(Digits(<<0>>), Lit(0, 8)),
     InRange(Digits(<<4, 2>>), Lit(42, 8)),
     InRange(Minus(Digits(<<1>>)), Lit(-1, 8)),
     InRange(Digits(<<1, 2, 7>>), Lit(127, 8)),
     InRange(Digits(<<1, 2, 8>>), Lit(128, 8)),
     InRange(Minus(Digits(<<1, 2, 8>>)), Lit(-128, 8)),
     InRange(Minus(Digits(<<1, 2, 9>>)), Lit(-129, 8)),
     InRange(Digits(<<2, 5, 6>>), Lit(256, 8)),
     InRange(Digits(<<6, 5, 5, 3, 5>>), Lit(65535, 8)),
     InRange(Digits(<<6, 5, 5, 3, 6>>), Lit(65536, 8)),
     InRange(Digits(<<7, 0, 0, 0, 0>>), Lit(70000, 8)),
     InRange(Digits(<<9, 2, 2, 3, 3, 7, 2, 0, 3, 6, 8, 5, 4, 7, 7, 5, 8, 0, 7>>),
             <<127, 255, 255, 255, 255, 255, 255, 255>>),
     OutOfRange(Digits(<<9, 2, 2, 3, 3, 7, 2, 0, 3, 6, 8, 5, 4, 7, 7, 5, 8, 0, 8>>)),
     InRange(Minus(Digits(<<9, 2, 2, 3, 3, 7, 2, 0, 3, 6, 8, 5, 4, 7, 7, 5, 8, 0, 8>>)),
             <<128, 0, 0, 0, 0, 0, 0, 0>>),
     OutOfRange(Minus(Digits(<<9, 2, 2, 3, 3, 7, 2, 0, 3, 6, 8, 5, 4, 7, 7, 5, 8, 0, 9>>))),
     OutOfRange(Digits(<<1, 8, 4, 4, 6, 7, 4, 4, 0, 7, 3, 7, 0, 9, 5, 5, 1, 6, 1, 5>>))}

\* the document {"<field i of WidthsClass>":<number>}
NumberDocument(i, c) == Braced(Member(WidthsClass.fields[i].name, c.text))

\* a WidthsClass whose members all hold 5 about to deserialize it
InitNumbers ==
    /\ pc = "document"
    /\ kind = "json"
    /\ ty = "WidthsClass"
    /\ stream \in {NumberDocument(i, c) : i \in 1..Len(WidthsClass.fields), c \in NumberCases}
    /\ y = <<Lit(5, 1), Lit(5, 2), Lit(5, 8), Lit(5, 8)>>
    /\ y0 = y
    /\ x = y
    /\ stream2 = <<>>
    /\ threw = ""
    /\ consumed = 0
    /\ pastEnd = FALSE
    /\ charSigned = FALSE
    /\ hashRev = FALSE
    /\ ApiIdle /\ RegIdle

SpecJsonNumbers == InitNumbers /\ [][NextDocument]_vars

\* ------------------------------------------------ refilling an instance
\* deserialize called on an instance whose sequences already hold elements
SequenceClassNames == {"NestedClass", "GridClass", "ItemsClass"}

FilledInstance(name) ==
    CASE name = "NestedClass" -> AssignedInstance("NestedClass")
      [] name = "GridClass" -> <<<<<<Lit(42, 4)>>, <<>>>>, <<S_aq>>>>
      [] name = "ItemsClass" -> <<<<<<Lit(42, 4), S_aq, TRUE>>>>, <<<<S_aq, Lit(-1, 4)>>>>>>

InitRefill(k) ==
    /\ pc = "constructed"
    /\ kind = k
    /\ ty \in SequenceClassNames
    /\ x \in InstancesOf(ty)
    /\ y \in {DefaultValue(TypeOf(ty)), FilledInstance(ty)}
    /\ y0 = y
    /\ stream = <<>>
    /\ stream2 = <<>>
    /\ threw = ""
    /\ consumed = 0
    /\ pastEnd = FALSE
    /\ charSigned = FALSE
    /\ hashRev \in (IF k = "json" THEN BOOLEAN ELSE {FALSE})
    /\ ApiIdle /\ RegIdle

SpecRefill == (\E k \in {"binary", "text", "json"} : InitRefill(k)) /\ [][NextRoundTrip]_vars

\* documents that hold no array for a sequence field of the class: nothing,
\* a scalar under the field's name, or a count without its elements
PartialDocuments(k) ==
    IF k = "text"
    THEN {<<>>} \cup {TextLine(n, D_5) : n \in {N_numbers, N_grid, N_items}}
              \cup {TextLine(n \o CountSuffix, <<50>>) : n \in {N_numbers, N_tags}}
    ELSE {Braced(<<>>)} \cup {Braced(Member(n, D_5)) : n \in {N_numbers, N_grid, N_items}}
              \cup {Braced(Member(n, Bracketed(D_5))) : n \in {N_numbers}}

\* an instance with filled sequences about to deserialize such a document
InitPartial(k) ==
    /\ pc = "document"
    /\ kind = k
    /\ ty \in SequenceClassNames
    /\ stream \in PartialDocuments(k)
    /\ y = FilledInstance(ty)
    /\ y0 = y
    /\ x = y
    /\ stream2 = <<>>
    /\ threw = ""
    /\ consumed = 0
    /\ pastEnd = FALSE
    /\ charSigned = FALSE
    /\ hashRev = FALSE
    /\ ApiIdle /\ RegIdle

SpecReplace ==
    /\ \/ \E k \in {"binary", "text", "json"} : InitRefill(k)
       \/ \E k \in {"text", "json"} : InitPartial(k)
    /\ [][NextRoundTrip]_vars

\* --------------------------------------------- an adapter driven directly
\* A caller constructs one adapter, for output or from an input stream, takes
\* its root and then calls the adapter's operations on the nodes it was
\* handed, in any order.
MaxCalls == 3

ApiKeys == {<<>>, N_id, N_name}

ApiDocs(k) ==
    CASE k = "binary" -> {<<>>, <<7, 0, 0, 0>>}
      [] k = "text" -> {<<>>, TextLine(N_id, D_7),
                        TextLine(N_name \o CountSuffix, <<49>>)
                            \o TextLine(Dotted(N_name, <<ChZero>>), D_5),
                        TextLine(N_id \o N_id, D_7),
                        TextLine(Dotted(N_name, Dotted(N_id, N_id)), D_7)}
      [] OTHER -> {<<>>, <<ChSpace>>, Braced(<<>>), Braced(Member(N_id, D_7)),
                   Braced(Member(N_name, Bracketed(D_5)))}

InitApi(k) ==
    /\ adapter \in {Writer(k, FALSE, FALSE)} \cup {Reader(k, d) : d \in ApiDocs(k)}
    /\ nodes = {}
    /\ last = NoCall
    /\ parser = <<>>
    /\ pc = "api"
    /\ kind = k
    /\ ty = "TestClass"
    /\ x = <<>> /\ y = <<>> /\ y0 = <<>>
    /\ stream = <<>> /\ stream2 = <<>>
    /\ threw = ""
    /\ consumed = 0
    /\ pastEnd = FALSE
    /\ charSigned = FALSE
    /\ hashRev = FALSE
    /\ RegIdle

\* the call op(node, key) returned result and left the adapter as after
Called(op, node, key, result, after) ==
    /\ adapter' = after
    /\ last' = [op |-> op, n |-> last.n + 1, node |-> node, key |-> key,
                result |-> result, before |-> adapter]
    /\ UNCHANGED <<tripVars, regVars, parser>>

CanCall == pc = "api" /\ last.n > 0 /\ last.n < MaxCalls /\ adapter.threw = ""

CallRoot ==
    /\ pc = "api" /\ last.n = 0
    /\ LET Done(r) == Called("root", NullNode, <<>>, r.node, r.ad) /\ nodes' = {r.node}
       IN  Done(Root(adapter))

CallGetChild ==
    /\ CanCall
    /\ \E n \in nodes, key \in ApiKeys :
          LET Done(r) == Called("getChild", n, key, r.node, r.ad) /\ nodes' = nodes \cup {r.node}
          IN  Done(GetChild(adapter, n, key))

CallAddChild ==
    /\ CanCall
    /\ \E n \in nodes, key \in ApiKeys :
          LET Done(r) == Called("addChild", n, key, r.node, r.ad) /\ nodes' = nodes \cup {r.node}
          IN  Done(AddChild(adapter, n, key))

CallGetArrayElement ==
    /\ CanCall
    /\ \E n \in nodes, index \in 0..1 :
          LET Done(r) == Called("getArrayElement", n, index, r.node, r.ad)
                         /\ nodes' = nodes \cup {r.node}
          IN  Done(GetArrayElement(adapter, n, index))

CallAddArrayElement ==
    /\ CanCall
    /\ \E n \in nodes :
          LET Done(r) == Called("addArrayElement", n, <<>>, r.node, r.ad)
                         /\ nodes' = nodes \cup {r.node}
          IN  Done(AddArrayElement(adapter, n))

CallSetArray ==
    /\ CanCall
    /\ \E n \in nodes, size \in 0..1 :
          /\ Called("setArray", n, size, NullNode, SetArray(adapter, n, size))
          /\ nodes' = nodes

CallGetArraySize ==
    /\ CanCall
    /\ \E n \in nodes :
          LET Done(r) == Called("getArraySize", n, <<>>, r.val, r.ad) /\ nodes' = nodes
          IN  Done(GetArraySize(adapter, n))

CallSetValue ==
    /\ CanCall
    /\ \E n \in nodes, t \in {Int32, TString} :
          /\ Called("setValue", n, t, NullNode,
                    SetValue(adapter, n, t, IF t = Int32 THEN Lit(42, 4) ELSE S_hi))
          /\ nodes' = nodes

CallGetValue ==
    /\ CanCall
    /\ \E n \in nodes, t \in {Int32, TString} :
          LET Done(r) == Called("getValue", n, t, r.val, r.ad) /\ nodes' = nodes
          IN  Done(GetValue(adapter, n, t))

NextApi ==
    \/ CallRoot
    \/ CallGetChild
    \/ CallAddChild
    \/ CallGetArrayElement
    \/ CallAddArrayElement
    \/ CallSetArray
    \/ CallGetArraySize
    \/ CallSetValue
    \/ CallGetValue

SpecApi == (\E k \in {"binary", "text", "json"} : InitApi(k)) /\ [][NextApi]_vars

\* ------------------------------------------ field lists and registries
\* the classes whose static field lists the process holds
RegClasses ==
    {TestClass, NestedClass, MultiSimpleClass, MultiComplexClass, ComplexMultiClass,
     MultiItemsClass}

\* the value types declared by the fields of the MultiSerializable classes
ValueTypes ==
    UNION {{c.fields[i].type : i \in 1..Len(c.fields)} :
           c \in {d \in RegClasses : d.kind = "multi"}}

\* registerTypeWithAllAdapters registers with these, in this order
AdapterKinds == <<"text", "binary", "json">>

\* the position of adapter kind a in the order registerTypeWithAllAdapters
\* registers with
KindIndex(a) == CHOOSE i \in 1..Len(AdapterKinds) : AdapterKinds[i] = a

Threads == {1, 2}
MaxOps == 2

\* FieldMetadata: the field's name and the type_index of its value type
Descriptor(f) == [name |-> f.name, typeIndex |-> f.type]
Descriptors(c) == [i \in 1..Len(c.fields) |-> Descriptor(c.fields[i])]

FieldFlags == UNION {{<<c, i>> : i \in 1..Len(c.fields)} : c \in RegClasses}

\* the static state of the process before the first construction
NewProcess ==
    [fields |-> [c \in RegClasses |-> <<>>],
     registrationFlag |-> [f \in FieldFlags |-> "idle"],
     flag |-> [t \in ValueTypes |-> "idle"],
     serializers_ |-> [a \in {"text", "binary", "json"} |-> <<>>],
     deserializers_ |-> [a \in {"text", "binary", "json"} |-> <<>>],
     registryMutex_ |-> [a \in {"text", "binary", "json"} |-> 0],
     stack |-> [t \in Threads |-> <<>>],
     ops |-> [t \in Threads |-> 0],
     constructed |-> {}]

\* what thread t executes next
Top(r, t) == Head(r.stack[t])
At(r, t, op) == r.stack[t] # <<>> /\ Top(r, t).op = op

Goto(r, t, frames) == [r EXCEPT !.stack[t] = frames \o Tail(@)]

CtorFrame(c, i) == [op |-> "ctor", cls |-> c, i |-> i]
TypeFrame(vt) == [op |-> "registerTypeWithAllAdapters", ty |-> vt]

\* after the helper of field i: the member itself is constructed (a member
\* of class type runs that class's constructor), then the next helper
AfterHelper(c, i) ==
    IF c.fields[i].type.kind \in {"obj", "multi"}
    THEN <<CtorFrame(c.fields[i].type, 1), CtorFrame(c, i + 1)>>
    ELSE <<CtorFrame(c, i + 1)>>

\* a gate that lets a second thread in while the callable is executing
OnceNeverWaits(state) == TRUE

\* a lock that is granted while another thread holds it
MutexNeverWaits(r, a) == TRUE

\* std::call_once may be entered: no other thread is executing the callable
OnceFree(state) == state # "running"

\* a gate that is marked passed before its callable has run
CallOnceFieldEarlyDone(r, t) ==
    LET c == Top(r, t).cls
        i == Top(r, t).i
    IN  IF r.registrationFlag[<<c, i>>] = "done" THEN Goto(r, t, AfterHelper(c, i))
        ELSE Goto([r EXCEPT !.registrationFlag[<<c, i>>] = "done"], t,
                  <<[op |-> "emplace_back", cls |-> c, i |-> i]>>)

\* the helper constructor of field i: std::call_once(registrationFlag, ...)
CallOnceField(r, t) ==
    LET c == Top(r, t).cls
        i == Top(r, t).i
    IN  IF r.registrationFlag[<<c, i>>] = "done" THEN Goto(r, t, AfterHelper(c, i))
        ELSE Goto([r EXCEPT !.registrationFlag[<<c, i>>] = "running"], t,
                  <<[op |-> "emplace_back", cls |-> c, i |-> i]>>)

\* the callable: emplace_back of the descriptor, then, in a MultiSerializable
\* class, registerTypeWithAllAdapters<type>() unless type derives from
\* MultiSerializable
EmplaceBack(r, t) ==
    LET c == Top(r, t).cls
        i == Top(r, t).i
        vt == c.fields[i].type
        returned == [op |-> "registered", cls |-> c, i |-> i]
    IN  Goto([r EXCEPT !.fields[c] = Append(@, Descriptor(c.fields[i]))], t,
             IF c.kind = "multi" /\ vt.kind # "multi"
             THEN <<TypeFrame(vt), returned>> ELSE <<returned>>)

\* the callable returned: the flag is set, the helper is constructed
FieldRegistered(r, t) ==
    LET c == Top(r, t).cls
        i == Top(r, t).i
    IN  Goto([r EXCEPT !.registrationFlag[<<c, i>>] = "done"], t, AfterHelper(c, i))

\* the constructor returns
ReturnCtor(r, t) ==
    LET popped == [r EXCEPT !.stack[t] = Tail(@),
                            !.constructed = @ \cup {Top(r, t).cls}]
    IN  IF popped.stack[t] = <<>> THEN [popped EXCEPT !.ops[t] = @ + 1] ELSE popped

\* registerTypeWithAllAdapters<T>: std::call_once(flag, ...)
CallOnceType(r, t) ==
    LET vt == Top(r, t).ty
        popped == [r EXCEPT !.stack[t] = Tail(@)]
    IN  IF r.flag[vt] = "done"
        THEN IF popped.stack[t] = <<>> THEN [popped EXCEPT !.ops[t] = @ + 1] ELSE popped
        ELSE Goto([r EXCEPT !.flag[vt] = "running"], t,
                  <<[op |-> "lock", ty |-> vt, a |-> 1]>>)

\* std::lock_guard<std::mutex> lock(registryMutex_) can be taken
MutexFree(r, a) == r.registryMutex_[a] = 0

\* registerType<T>: the lock is taken
LockRegistry(r, t) ==
    LET a == AdapterKinds[Top(r, t).a]
    IN  Goto([r EXCEPT !.registryMutex_[a] = t], t,
             <<[op |-> "insert", ty |-> Top(r, t).ty, a |-> Top(r, t).a,
                serializers |-> r.serializers_[a], deserializers |-> r.deserializers_[a]]>>)

\* a registerType that stores the serialize closure only
InsertSerializerOnly(r, t) ==
    LET f == Top(r, t)
        a == AdapterKinds[f.a]
        stored == [r EXCEPT !.serializers_[a] = MapPut(f.serializers, f.ty, f.ty),
                            !.registryMutex_[a] = 0]
        popped == [stored EXCEPT !.stack[t] = Tail(@), !.flag[f.ty] = "done"]
    IN  IF f.a < Len(AdapterKinds)
        THEN Goto(stored, t, <<[op |-> "lock", ty |-> f.ty, a |-> f.a + 1]>>)
        ELSE IF popped.stack[t] = <<>> THEN [popped EXCEPT !.ops[t] = @ + 1] ELSE popped

\* serializers_[typeIdx] = ...; deserializers_[typeIdx] = ...: the maps this
\* thread looked the slots up in, with the two closures of T stored; the
\* lock is released, and after the last adapter the flag is set
InsertClosures(r, t) ==
    LET f == Top(r, t)
        a == AdapterKinds[f.a]
        stored == [r EXCEPT !.serializers_[a] = MapPut(f.serializers, f.ty, f.ty),
                            !.deserializers_[a] = MapPut(f.deserializers, f.ty, f.ty),
                            !.registryMutex_[a] = 0]
        popped == [stored EXCEPT !.stack[t] = Tail(@), !.flag[f.ty] = "done"]
    IN  IF f.a < Len(AdapterKinds)
        THEN Goto(stored, t, <<[op |-> "lock", ty |-> f.ty, a |-> f.a + 1]>>)
        ELSE IF popped.stack[t] = <<>> THEN [popped EXCEPT !.ops[t] = @ + 1] ELSE popped

\* thread t cannot take its next step now
Blocked(r, t) ==
    \/ r.stack[t] = <<>>
    \/ /\ At(r, t, "ctor") /\ Top(r, t).i <= Len(Top(r, t).cls.fields)
       /\ ~OnceFree(r.registrationFlag[<<Top(r, t).cls, Top(r, t).i>>])
    \/ At(r, t, "registerTypeWithAllAdapters") /\ ~OnceFree(r.flag[Top(r, t).ty])
    \/ At(r, t, "lock") /\ ~MutexFree(r, AdapterKinds[Top(r, t).a])

\* the next step of thread t
Step(r, t) ==
    CASE At(r, t, "ctor") ->
            IF Top(r, t).i <= Len(Top(r, t).cls.fields) THEN CallOnceField(r, t)
            ELSE ReturnCtor(r, t)
      [] At(r, t, "emplace_back") -> EmplaceBack(r, t)
      [] At(r, t, "registered") -> FieldRegistered(r, t)
      [] At(r, t, "registerTypeWithAllAdapters") -> CallOnceType(r, t)
      [] At(r, t, "lock") -> LockRegistry(r, t)
      [] OTHER -> InsertClosures(r, t)

\* thread t runs alone until its call returns
RECURSIVE Run(_, _)
Run(r, t) == IF r.stack[t] = <<>> THEN r ELSE Run(Step(r, t), t)

\* T obj; : the constructor of T called by thread t
Construct(r, t, c) == [r EXCEPT !.stack[t] = <<CtorFrame(c, 1)>>]

\* REGISTER_MULTI_SERIALIZABLE_TYPE(Type) called by thread t
RegisterSealed(r, t, vt) == [r EXCEPT !.stack[t] = <<TypeFrame(vt)>>]

InitRegister ==
    /\ reg = NewProcess
    /\ calls = <<>>
    /\ ApiIdle
    /\ pc = "registering"
    /\ kind = "text"
    /\ ty = "TestClass"
    /\ x = <<>> /\ y = <<>> /\ y0 = <<>>
    /\ stream = <<>> /\ stream2 = <<>>
    /\ threw = ""
    /\ consumed = 0
    /\ pastEnd = FALSE
    /\ charSigned = FALSE
    /\ hashRev = FALSE

Stepped(r) == reg' = r /\ UNCHANGED <<tripVars, apiVars, calls>>

Idle(t) == pc = "registering" /\ reg.stack[t] = <<>> /\ reg.ops[t] < MaxOps
Running(t, op) == pc = "registering" /\ At(reg, t, op) /\ ~Blocked(reg, t)

\* the classes the threads of the registration runs instantiate
ThreadClasses == {TestClass, MultiSimpleClass, MultiComplexClass}

ThreadConstructs ==
    \E t \in Threads, c \in ThreadClasses : Idle(t) /\ Stepped(Construct(reg, t, c))

ThreadRegistersSealed ==
    \E t \in Threads : Idle(t) /\ Stepped(RegisterSealed(reg, t, ExternalClass))

ThreadCallOnceField ==
    \E t \in Threads :
        /\ Running(t, "ctor") /\ Top(reg, t).i <= Len(Top(reg, t).cls.fields)
        /\ Stepped(CallOnceField(reg, t))

ThreadEmplaceBack == \E t \in Threads : Running(t, "emplace_back") /\ Stepped(EmplaceBack(reg, t))

ThreadFieldRegistered ==
    \E t \in Threads : Running(t, "registered") /\ Stepped(FieldRegistered(reg, t))

ThreadReturnCtor ==
    \E t \in Threads :
        /\ Running(t, "ctor") /\ Top(reg, t).i > Len(Top(reg, t).cls.fields)
        /\ Stepped(ReturnCtor(reg, t))

ThreadCallOnceType ==
    \E t \in Threads :
        Running(t, "registerTypeWithAllAdapters") /\ Stepped(CallOnceType(reg, t))

ThreadLockRegistry == \E t \in Threads : Running(t, "lock") /\ Stepped(LockRegistry(reg, t))

ThreadInsertClosures ==
    \E t \in Threads : Running(t, "insert") /\ Stepped(InsertClosures(reg, t))

NextRegister ==
    \/ ThreadConstructs
    \/ ThreadRegistersSealed
    \/ ThreadCallOnceField
    \/ ThreadEmplaceBack
    \/ ThreadFieldRegistered
    \/ ThreadReturnCtor
    \/ ThreadCallOnceType
    \/ ThreadLockRegistry
    \/ ThreadInsertClosures

SpecRegister == InitRegister /\ [][NextRegister]_vars

\* ------------------------------------- objects serialized at run time
\* the member a descriptor's accessor returns: the field of that name
MemberIndex(c, name) == CHOOSE m \in 1..Len(c.fields) : c.fields[m].name = name

\* the MultiSerializable class a value type holds, if any
RECURSIVE InnerType(_)
InnerType(t) == IF t.kind = "vec" THEN InnerType(t.elem) ELSE t

\* registerTypeWithAllAdapters<T> entered while the mutex of kind a is held
\* by the caller: the registries before a receive T, then the lock of a is
\* requested again
RegisteredBefore(r, t, a) ==
    IF r.flag[t] = "done" THEN r
    ELSE [r EXCEPT
            !.serializers_ = [k \in DOMAIN @ |->
                IF KindIndex(k) < KindIndex(a) THEN MapPut(@[k], t, t) ELSE @[k]],
            !.deserializers_ = [k \in DOMAIN @ |->
                IF KindIndex(k) < KindIndex(a) THEN MapPut(@[k], t, t) ELSE @[k]]]

\* registries that hold no closures for sequence types
HasCodecNoSequences(c, d, closures) ==
    c.kind = "obj" \/ (MapHas(closures, d.typeIndex) /\ d.typeIndex.kind # "vec")

\* the codec of a listed field is found: a Serializable descriptor holds the
\* function pointers; a MultiSerializable descriptor is looked up by
\* type_index in the registry of the adapter kind
HasCodec(c, d, closures) == c.kind = "obj" \/ MapHas(closures, d.typeIndex)

\* one turn of the loop of serialize(adapter, node)
SerializeField(c, d, v, st, node, a) ==
    IF ~HasCodec(c, d, st.r.serializers_[a]) THEN st
    ELSE LET Wrote(ad) ==
                [ad |-> ad,
                 r |-> IF ad.threw = "relock"
                       THEN RegisteredBefore(st.r, InnerType(d.typeIndex), a) ELSE st.r,
                 trace |-> Append(st.trace, d.name)]
         IN  Wrote(SerializeValue(d.typeIndex, v, st.ad, node, d.name))

\* for (const auto& field : multiSerializationFields_) of serialize
RECURSIVE SerializeListed(_, _, _, _, _, _)
SerializeListed(c, v, st, node, i, a) ==
    IF i > Len(st.r.fields[c]) \/ st.ad.threw # "" THEN st
    ELSE LET d == st.r.fields[c][i]
         IN  SerializeListed(c, v,
                 SerializeField(c, d, v[MemberIndex(c, d.name)], st, node, a), node, i + 1, a)

\* one turn of the loop of deserialize(adapter, node)
DeserializeField(c, d, st, node, a) ==
    IF ~HasCodec(c, d, st.r.deserializers_[a]) THEN st
    ELSE LET m == MemberIndex(c, d.name)
             Stored(g) ==
                [ad |-> g.ad,
                 r |-> IF g.ad.threw = "relock"
                       THEN RegisteredBefore(st.r, InnerType(d.typeIndex), a) ELSE st.r,
                 trace |-> Append(st.trace, d.name),
                 val |-> [st.val EXCEPT ![m] = g.val]]
         IN  Stored(DeserializeValue(d.typeIndex, st.val[m], st.ad, node, d.name))

\* for (const auto& field : multiSerializationFields_) of deserialize
RECURSIVE DeserializeListed(_, _, _, _, _)
DeserializeListed(c, st, node, i, a) ==
    IF i > Len(st.r.fields[c]) \/ st.ad.threw # "" THEN st
    ELSE DeserializeListed(c, DeserializeField(c, st.r.fields[c][i], st, node, a),
                           node, i + 1, a)

\* what locking a std::mutex the thread already owns can do
RelockOutcomes == {"deadlock", "system_error"}

MultiClassNames ==
    {"TestClass", "NestedClass", "MultiSimpleClass", "MultiComplexClass",
     "ComplexMultiClass", "MultiItemsClass"}

InitMulti ==
    /\ reg = NewProcess
    /\ calls = <<>>
    /\ ApiIdle
    /\ pc = "multi-start"
    /\ kind = "text"
    /\ ty = "TestClass"
    /\ x = <<>> /\ y = <<>> /\ y0 = <<>>
    /\ stream = <<>> /\ stream2 = <<>>
    /\ threw = ""
    /\ consumed = 0
    /\ pastEnd = FALSE
    /\ charSigned = FALSE
    /\ hashRev = FALSE

\* T obj; obj.f = ...; T deserialized; : two instances are constructed, the
\* fields of the first are assigned
MultiConstruct ==
    /\ pc = "multi-start"
    /\ \E name \in MultiClassNames :
          /\ ty' = name
          /\ x' \in InstancesOf(name)
          /\ y' = DefaultValue(TypeOf(name))
          /\ reg' = Run(Construct(Run(Construct(reg, 1, TypeOf(name)), 1), 1, TypeOf(name)), 1)
    /\ pc' = "multi-ready"
    /\ UNCHANGED <<kind, y0, stream, threw, consumed, pastEnd, stream2, charSigned, hashRev>>
    /\ UNCHANGED <<apiVars, calls>>

\* the call ended at a lock of a mutex the thread owns: it never returns, or
\* it leaves by std::system_error
Relocked(call, a, st, t) ==
    \E outcome \in RelockOutcomes :
        /\ threw' = outcome
        /\ calls' = Append(calls, [call |-> call, kind |-> a, fields |-> st.trace,
                                   threw |-> outcome, out |-> st.ad.out])
        /\ IF outcome = "deadlock"
           THEN /\ pc' = "multi-hung"
                /\ reg' = [st.r EXCEPT !.registryMutex_[a] = 1, !.flag[t] = "running"]
           ELSE /\ pc' = "multi-ready"
                /\ reg' = st.r

\* obj.serialize<AdapterType>(stream)
MultiSerialize ==
    /\ pc = "multi-ready" /\ Len(calls) < MaxCalls
    /\ \E a \in {"text", "binary", "json"} :
          LET c == TypeOf(ty)
              Done(st) ==
                  IF st.ad.threw = "relock"
                  THEN /\ Relocked("serialize", a, st,
                                   InnerType(st.r.fields[c][Len(st.trace)].typeIndex))
                       /\ stream' = st.ad.out
                  ELSE /\ stream' = finishSerialization(st.ad).out
                       /\ threw' = st.ad.threw
                       /\ calls' = Append(calls, [call |-> "serialize", kind |-> a,
                                                  fields |-> st.trace, threw |-> st.ad.threw,
                                                  out |-> finishSerialization(st.ad).out])
                       /\ reg' = st.r
                       /\ pc' = "multi-ready"
              From(rt) == Done(SerializeListed(c, x,
                               [ad |-> rt.ad, r |-> reg, trace |-> <<>>], rt.node, 1, a))
          IN  /\ From(Root(Writer(a, charSigned, hashRev)))
              /\ kind' = a
    /\ UNCHANGED <<ty, x, y, y0, consumed, pastEnd, stream2, charSigned, hashRev>>
    /\ UNCHANGED apiVars

\* deserialized.deserialize<AdapterType>(stream), on the stream the last
\* serialize call wrote, with the adapter kind that wrote it
MultiDeserialize ==
    /\ pc = "multi-ready" /\ Len(calls) < MaxCalls
    /\ calls # <<>> /\ calls[Len(calls)].call = "serialize" /\ threw = ""
    /\ LET c == TypeOf(ty)
           Done(st) ==
               /\ y' = st.val
               /\ IF st.ad.threw = "relock"
                  THEN Relocked("deserialize", kind, st,
                                InnerType(st.r.fields[c][Len(st.trace)].typeIndex))
                  ELSE /\ threw' = st.ad.threw
                       /\ calls' = Append(calls, [call |-> "deserialize", kind |-> kind,
                                                  fields |-> st.trace, threw |-> st.ad.threw,
                                                  out |-> stream])
                       /\ reg' = st.r
                       /\ pc' = "multi-ready"
           From(rt) == Done(DeserializeListed(c,
                            [ad |-> rt.ad, r |-> reg, trace |-> <<>>,
                             val |-> DefaultValue(c)], rt.node, 1, kind))
       IN  From(Root(Reader(kind, stream)))
    /\ UNCHANGED <<kind, ty, x, y0, stream, consumed, pastEnd, stream2, charSigned, hashRev>>
    /\ UNCHANGED apiVars

NextMulti ==
    \/ MultiConstruct
    \/ MultiSerialize
    \/ MultiDeserialize

SpecMulti == InitMulti /\ [][NextMulti]_vars

Init == \E k \in {"binary", "text", "json"} : InitRoundTrip(k) \/ InitDocument(k)
Next == NextRoundTrip
Spec == Init /\ [][Next]_vars

\* ------------------------------------------------------------ properties
\* The fields of the class of this run, and what the input holds for them.
FieldsOf == TypeOf(ty).fields

\* the adapter deserialize builds from the input, at its root
DocRoot == Root(Reader(kind, stream))

\* the adapter finds a child for field i: getChild does not return nullptr
DocumentContains(i) == GetChild(DocRoot.ad, DocRoot.node, FieldsOf[i].name).node.ok

\* field i deserialized from the input on its own, starting from the value
\* it held before the call
FieldFromDocument(i) ==
    DeserializeValue(FieldsOf[i].type, y0[i], DocRoot.ad, DocRoot.node, FieldsOf[i].name)

\* the JSON type a field of type t is written as
ExpectedJsonType(t) ==
    CASE t.kind = "int" -> "Number"
      [] t.kind = "bool" -> "Bool"
      [] t.kind = "string" -> "String"
      [] t.kind = "vec" -> "Array"
      [] OTHER -> "Object"

\* the JSON document holds a value for field i, of another type than the field's
Mismatched(i) ==
    LET c == GetChild(DocRoot.ad, DocRoot.node, FieldsOf[i].name)
    IN  c.node.ok /\ c.ad.dom[c.node.id].type # ExpectedJsonType(FieldsOf[i].type)

\* the Text document stores for integer field i, or for the ".count" of
\* sequence field i, a text std::stoll / std::stoull does not convert
InvalidText(i) ==
    LET data == TextReader(stream).data
        t == FieldsOf[i].type
        name == FieldsOf[i].name
    IN  \/ /\ t.kind = "int"
           /\ MapHas(data, name)
           /\ (IF t.signed THEN Stoll(data[name]) ELSE Stoull(data[name])).status # "ok"
        \/ /\ t.kind = "vec"
           /\ MapHas(data, name \o CountSuffix)
           /\ Stoull(data[name \o CountSuffix]).status # "ok"

\* The documented binary layout, written down independently of the adapter.
LittleEndian(v) == [i \in 1..Len(v) |-> v[Len(v) + 1 - i]]

Count32(n) == <<n % 256, (n \div 256) % 256, (n \div 65536) % 256, (n \div 16777216) % 256>>

RECURSIVE LayoutOf(_, _)
RECURSIVE LayoutOfItems(_, _, _)
RECURSIVE LayoutOfFields(_, _, _)

LayoutOfItems(t, items, i) ==
    IF i > Len(items) THEN <<>> ELSE LayoutOf(t, items[i]) \o LayoutOfItems(t, items, i + 1)

LayoutOfFields(t, v, i) ==
    IF i > Len(t.fields) THEN <<>>
    ELSE LayoutOf(t.fields[i].type, v[i]) \o LayoutOfFields(t, v, i + 1)

LayoutOf(t, v) ==
    CASE t.kind = "int" -> LittleEndian(v)
      [] t.kind = "bool" -> <<IF v THEN 1 ELSE 0>>
      [] t.kind = "string" -> Count32(Len(v)) \o v
      [] t.kind = "vec" -> Count32(Len(v)) \o LayoutOfItems(t.elem, v, 1)
      [] OTHER -> LayoutOfFields(t, v, 1)

\* value = 42, name = "hi" and the bytes documented for it
PairExample == <<<<0, 0, 0, 42>>, <<104, 105>>>>

PairExampleBytes == <<42, 0, 0, 0, 2, 0, 0, 0, 104, 105>>

\* C1: with the Binary adapter, deserializing the bytes x.serialize wrote
\* into a freshly constructed instance gives an instance equal to x field by
\* field, and raises nothing.
BinaryRoundTrip ==
    (kind = "binary" /\ pc = "deserialized") => (y = x /\ threw = "")

BinaryRoundTripWitness ==
    /\ kind = "binary" /\ pc = "deserialized" /\ ty = "ItemsClass"
    /\ Len(x[1]) = 2 /\ Len(x[2]) = 1
    /\ y0 = DefaultValue(ItemsClass) /\ y = x

\* C2: with the Text adapter, deserializing the text x.serialize wrote into
\* a freshly constructed instance gives an instance equal to x, whatever
\* characters its strings hold (quotes, '=', '#', spaces, line breaks).
TextRoundTrip ==
    (kind = "text" /\ pc = "deserialized") => (y = x /\ threw = "")

\* C3: with the Lazy-JSON adapter, deserializing the JSON text x.serialize
\* wrote into a freshly constructed instance gives an instance equal to x,
\* for integers of every width and signedness up to 64 bits.
JsonRoundTrip ==
    (kind = "json" /\ pc = "deserialized") => (y = x /\ threw = "")

\* C4: unescapeJsonString(escapeJsonString(s)) = s for every string s, with
\* quotes, backslashes, control characters and non-ASCII bytes at any
\* position, the last included; and a string field written by the Lazy-JSON
\* adapter and parsed back is s.
JsonEscapeRoundTrip ==
    (kind = "json" /\ ty = "StringClass") =>
        /\ unescapeJsonString(escapeJsonString(x[1], charSigned))
               = [status |-> "ok", val |-> x[1]]
        /\ pc = "deserialized" => (y = x /\ threw = "")

JsonEscapeRoundTripWitness ==
    /\ kind = "json" /\ pc = "deserialized" /\ ty = "StringClass"
    /\ x[1] = <<ChBackslash, 1>>
    /\ y = x

\* C5: the Binary adapter's output for an object is the concatenation, in
\* declaration order and with nothing added, of its fields' encodings: an
\* integer as its bytes least significant first, a boolean as one byte 0/1,
\* a string as a 4-byte little-endian length and its bytes, a sequence as a
\* 4-byte little-endian count and its elements, a nested object as its
\* fields; int 42 then "hi" is 2A 00 00 00 02 00 00 00 68 69.
BinaryLayout ==
    (kind = "binary" /\ pc # "constructed") =>
        /\ stream = LayoutOf(TypeOf(ty), x)
        /\ (ty = "PairClass" /\ x = PairExample) => stream = PairExampleBytes

BinaryLayoutWitness ==
    /\ kind = "binary" /\ pc = "serialized" /\ ty = "PairClass"
    /\ x = PairExample
    /\ stream = PairExampleBytes

\* C6: with the Binary adapter, serializing x, deserializing the bytes into
\* a fresh instance y and serializing y gives the same bytes again.
BinaryReserializeIdentical ==
    (kind = "binary" /\ pc = "reserialized") => stream2 = stream

BinaryReserializeIdenticalWitness ==
    /\ kind = "binary" /\ pc = "reserialized" /\ ty = "NestedClass"
    /\ x[1] # <<>> /\ Len(x[3]) = 2
    /\ stream # <<>> /\ stream2 = stream

\* C7: for the Text and Lazy-JSON adapters and any input document,
\* deserialize raises no error, every declared field the document does not
\* contain keeps the value it held before the call, and every other field
\* is deserialized from the document.
MissingFieldPolicy ==
    (kind \in {"text", "json"} /\ pc = "deserialized") =>
        /\ threw = ""
        /\ \A i \in 1..Len(FieldsOf) :
              IF DocumentContains(i) THEN y[i] = FieldFromDocument(i).val
              ELSE y[i] = y0[i]

\* C8 as stated: with the Lazy-JSON adapter a field whose JSON value is of
\* another type than the field (a sequence or aggregate field given a scalar
\* included) is deserialized without an exception to its type's zero/empty
\* value, whatever it held before.
JsonMismatchGivesZero ==
    (kind = "json" /\ pc = "deserialized") =>
        \A i \in 1..Len(FieldsOf) :
            Mismatched(i) =>
                /\ FieldFromDocument(i).ad.threw = ""
                /\ FieldFromDocument(i).val = ZeroValue(FieldsOf[i].type)
                /\ threw = "" => y[i] = ZeroValue(FieldsOf[i].type)

\* C8 as the code has it: with the Lazy-JSON adapter a field whose JSON
\* value is of another type than the field is deserialized without an
\* exception; a scalar field gets its type's zero/empty value whatever it
\* held before, a sequence or aggregate field keeps the value it held
\* before.
JsonMismatchPolicy ==
    (kind = "json" /\ pc = "deserialized") =>
        \A i \in 1..Len(FieldsOf) :
            Mismatched(i) =>
                LET expected == IF IsScalar(FieldsOf[i].type)
                                THEN ZeroValue(FieldsOf[i].type) ELSE y0[i]
                IN  /\ FieldFromDocument(i).ad.threw = ""
                    /\ FieldFromDocument(i).val = expected
                    /\ threw = "" => y[i] = expected

\* a sequence field that held two elements, given a JSON number
JsonMismatchPolicyWitness ==
    /\ kind = "json" /\ pc = "deserialized" /\ ty = "NestedClass"
    /\ Mismatched(3) /\ Len(y0[3]) = 2
    /\ threw = "" /\ y[3] = y0[3]

\* C9: deserializing with the Lazy-JSON adapter raises no exception, for
\* every input text: empty, truncated, invalid, or well-formed with an
\* invalid escape sequence in a string or a malformed number.
JsonNeverRaises ==
    (kind = "json" /\ pc = "deserialized") => threw = ""

\* C10: with the Text adapter, when the text stored for an integer field or
\* for the ".count" of a sequence is not a number, deserialize gives the
\* field its type's default value and no exception reaches the caller.
TextInvalidGivesDefault ==
    (kind = "text" /\ pc = "deserialized") =>
        \A i \in 1..Len(FieldsOf) :
            InvalidText(i) => (threw = "" /\ y[i] = ZeroValue(FieldsOf[i].type))

\* ------------------------------------------------------ empty sequences
\* the positions at which a line of the text s starts, and the line there
LineStarts(s) == {a \in 1..Len(s) : a = 1 \/ s[a - 1] = ChLF}

LineAt(s, a) ==
    LET end == CHOOSE b \in a..(Len(s) + 1) :
                   /\ b = Len(s) + 1 \/ s[b] = ChLF
                   /\ \A c \in a..(b - 1) : s[c] # ChLF
    IN  SubSeq(s, a, end - 1)

\* sub occurs in s
Contains(s, sub) ==
    \E i \in 0..(Len(s) - Len(sub)) : SubSeq(s, i + 1, i + Len(sub)) = sub

\* the class of this run with its fields from..to only
FieldRange(from, to) == TObj(SubSeq(FieldsOf, from, to))

\* the declared sequence fields that are empty in x
EmptySequenceFields ==
    {i \in 1..Len(FieldsOf) : FieldsOf[i].type.kind = "vec" /\ x[i] = <<>>}

\* what serialize wrote for the empty sequence field i
ZeroCountWritten(i) ==
    LET name == FieldsOf[i].name
    IN  CASE kind = "binary" ->
                stream = LayoutOf(FieldRange(1, i - 1), SubSeq(x, 1, i - 1))
                         \o <<0, 0, 0, 0>>
                         \o LayoutOf(FieldRange(i + 1, Len(x)), SubSeq(x, i + 1, Len(x)))
          [] kind = "text" ->
                /\ \E a \in LineStarts(stream) : StartsWith(LineAt(stream, a), name \o <<ChDot>>)
                /\ \A a \in LineStarts(stream) :
                       StartsWith(LineAt(stream, a), name \o <<ChDot>>)
                           => LineAt(stream, a)
                                  = name \o CountSuffix \o <<ChSpace, ChEquals, ChSpace, ChZero>>
          [] OTHER -> Contains(stream, Member(name, Bracketed(<<>>)))

\* C11: for every built-in adapter, serializing an empty sequence writes a
\* count of zero and no element entries (Binary: four zero bytes; Text:
\* "path.count = 0" and no "path.N" line; Lazy-JSON: "[]"), and deserializing
\* that zero-count array leaves the destination sequence empty, whatever it
\* held before.
EmptySequences ==
    \A i \in EmptySequenceFields :
        /\ pc # "constructed" => ZeroCountWritten(i)
        /\ pc = "deserialized" => (threw = "" /\ y[i] = <<>>)

EmptySequencesWitness ==
    /\ pc = "deserialized" /\ kind = "text" /\ ty = "NestedClass"
    /\ 3 \in EmptySequenceFields
    /\ Len(y0[3]) = 2 /\ y[3] = <<>>
    /\ Contains(stream, TextLine(N_numbers \o CountSuffix, <<ChZero>>))

\* ------------------------------------------------- the Text format's lines
\* The documented Text format, written down independently of the adapter:
\* "key = value" lines, nested fields at parent.child, a sequence as
\* path.count = N followed by its elements at path.0 .. path.(N-1).
TextPath(path, key) == IF path = <<>> THEN key ELSE path \o <<ChDot>> \o key

TextIndex(i) == StdToString(Lit(i, 8), FALSE)

TextScalar(t, v) ==
    CASE t.kind = "string" -> <<ChQuote>> \o v \o <<ChQuote>>
      [] t.kind = "bool" -> (IF v THEN TrueText ELSE FalseText)
      [] OTHER -> StdToString(v, t.signed)

RECURSIVE TextLayoutOf(_, _, _)
RECURSIVE TextLayoutOfItems(_, _, _, _)
RECURSIVE TextLayoutOfFields(_, _, _, _)

TextLayoutOfItems(t, items, path, i) ==
    IF i > Len(items) THEN <<>>
    ELSE TextLayoutOf(t, items[i], TextPath(path, TextIndex(i - 1)))
         \o TextLayoutOfItems(t, items, path, i + 1)

TextLayoutOfFields(t, v, path, i) ==
    IF i > Len(t.fields) THEN <<>>
    ELSE TextLayoutOf(t.fields[i].type, v[i], TextPath(path, t.fields[i].name))
         \o TextLayoutOfFields(t, v, path, i + 1)

TextLayoutOf(t, v, path) ==
    CASE IsScalar(t) -> TextLine(path, TextScalar(t, v))
      [] t.kind = "vec" ->
            TextLine(path \o CountSuffix, TextIndex(Len(v))) \o TextLayoutOfItems(t.elem, v, path, 1)
      [] OTHER -> TextLayoutOfFields(t, v, path, 1)

\* C18: in write mode the Text adapter writes a scalar field c of a nested
\* aggregate at path p as the line "p.c = value" (strings in double quotes)
\* and a sequence of length N at path p as "p.count = N" followed by its
\* elements at p.0 .. p.(N-1) in element order, also for sequences of
\* aggregates and sequences inside sequences: every array counts its own
\* elements.
TextArrayPaths ==
    (kind = "text" /\ pc # "constructed") => stream = TextLayoutOf(TypeOf(ty), x, <<>>)

\* two inner arrays: the second one's elements are at grid.1.0 and grid.1.1
TextArrayPathsWitness ==
    /\ kind = "text" /\ pc = "serialized" /\ ty = "GridClass"
    /\ x[1] = <<<<Lit(42, 4)>>, <<Lit(42, 4), Lit(42, 4)>>>>
    /\ Contains(stream, TextLine(N_grid \o <<ChDot, 49, ChDot, 49>>, <<52, 50>>))
    /\ Contains(stream, TextLine(N_grid \o <<ChDot, 49>> \o CountSuffix, <<50>>))

\* -------------------------------------------------- the adapter contract
\* C19: for every built-in adapter and every node n the adapter handed out,
\* getChild(n, "") and addChild(n, "") return n itself and create no node:
\* the adapter is as it was before the call.
EmptyKeySameNode ==
    (last.op \in {"getChild", "addChild"} /\ last.key = <<>>) =>
        (last.result = last.node /\ adapter = last.before)

\* addChild(element, "") on an array element the Lazy-JSON adapter created
EmptyKeySameNodeWitness ==
    /\ kind = "json" /\ last.op = "addChild" /\ last.key = <<>>
    /\ last.node.ok /\ last.node # Root(adapter).node
    /\ last.result = last.node
    /\ Len(adapter.dom) = 2

\* C20: a LazyJson instance constructed from an input stream is in
\* deserialization mode whatever the stream holds: isSerializing() is false,
\* and addChild, addArrayElement and setValue return absent or do nothing and
\* leave the DOM as it was; one constructed for output is in serialization
\* mode: getChild with a non-empty key and getArrayElement return absent and
\* getArraySize returns 0.
JsonOneMode ==
    (pc = "api" /\ kind = "json") =>
        IF adapter.writing
        THEN /\ isSerializing(adapter)
             /\ (last.op = "getChild" /\ last.key # <<>>) => last.result = NullNode
             /\ last.op = "getArrayElement" => last.result = NullNode
             /\ last.op = "getArraySize" => last.result = Zeros(8)
        ELSE /\ ~isSerializing(adapter)
             /\ last.op \in {"addChild", "addArrayElement"} =>
                    (last.result \in {NullNode, last.node} /\ adapter.dom = last.before.dom)
             /\ last.op = "setValue" => adapter.dom = last.before.dom

\* ------------------------------------------------- field registration
\* C13: after any number of constructions of instances of a type, by one
\* thread or by several at the same time, the type's field list holds
\* exactly one descriptor per declared field, in declaration order: while a
\* first construction is under way the list is a prefix of the declared
\* fields, and once any construction has returned it is the whole list.
FieldListExact ==
    pc = "registering" =>
        \A c \in RegClasses :
            /\ Len(reg.fields[c]) <= Len(c.fields)
            /\ reg.fields[c] = SubSeq(Descriptors(c), 1, Len(reg.fields[c]))
            /\ c \in reg.constructed => reg.fields[c] = Descriptors(c)

\* two threads are in the constructor of the same class at once, one inside
\* the callable of a field and the other waiting at that field's gate, and
\* a class constructed before has its whole list
FieldListExactWitness ==
    /\ pc = "registering"
    /\ \E t, u \in Threads :
          /\ At(reg, t, "emplace_back") /\ At(reg, u, "ctor")
          /\ Top(reg, u).cls = Top(reg, t).cls /\ Top(reg, u).i = Top(reg, t).i
          /\ Top(reg, t).i > 1
    /\ \E c \in reg.constructed : Len(c.fields) > 1 /\ reg.fields[c] = Descriptors(c)


\* a registration of vt has returned from registerType for adapter kind a
RegisteredWith(vt, a) ==
    \/ reg.flag[vt] = "done"
    \/ \E t \in Threads :
          /\ At(reg, t, "lock") \/ At(reg, t, "insert")
          /\ Top(reg, t).ty = vt
          /\ KindIndex(a) < Top(reg, t).a

\* C14: after any interleaving of registration calls from several threads,
\* for one type or for different types, the registry of each adapter kind
\* holds exactly the types whose registration with that kind has returned,
\* each with the one serialize and the one deserialize closure of that type:
\* no entry is lost or overwritten by another registration, and a repeated
\* registration changes nothing.
RegistryExact ==
    pc = "registering" =>
        \A a \in {"text", "binary", "json"} :
            /\ DOMAIN reg.serializers_[a] = {vt \in ValueTypes : RegisteredWith(vt, a)}
            /\ DOMAIN reg.deserializers_[a] = DOMAIN reg.serializers_[a]
            /\ \A vt \in DOMAIN reg.serializers_[a] :
                  reg.serializers_[a][vt] = vt /\ reg.deserializers_[a][vt] = vt

\* one thread is storing the closures of a type in a registry that holds
\* other types while another thread waits for that registry's lock with a
\* different type, after a call of one of them has returned
RegistryExactWitness ==
    /\ pc = "registering"
    /\ \E t, u \in Threads :
          /\ At(reg, t, "insert") /\ At(reg, u, "lock")
          /\ Top(reg, t).a = Top(reg, u).a
          /\ Top(reg, t).ty # Top(reg, u).ty
          /\ Top(reg, t).serializers # <<>>
          /\ reg.ops[t] + reg.ops[u] > 0

\* C15: whenever an instance of a MultiSerializable type exists, the value
\* type of each of its declared fields has a serialize and a deserialize
\* entry in the Text, Binary and Lazy-JSON registries.
ValueTypesRegistered ==
    pc = "registering" =>
        \A c \in reg.constructed :
            c.kind = "multi" =>
                \A i \in 1..Len(c.fields), a \in {"text", "binary", "json"} :
                    /\ MapHas(reg.serializers_[a], c.fields[i].type)
                    /\ MapHas(reg.deserializers_[a], c.fields[i].type)


\* ------------------------------------------------ objects at run time
\* the names of the declared fields of the class of x, in declaration order
DeclaredNames == [i \in 1..Len(FieldsOf) |-> FieldsOf[i].name]

\* C12: every serialize call and every deserialize call that returns has
\* invoked the field codecs of the declared fields f1..fn in exactly that
\* order, whatever calls preceded it and however many instances exist.
CodecOrder ==
    \A i \in 1..Len(calls) : calls[i].threw = "" => calls[i].fields = DeclaredNames

\* C16: an object of a MultiSerializable class with a field of a
\* MultiSerializable-derived type, directly or as the element type of a
\* sequence, round-trips through each built-in adapter: deserialize returns
\* normally and the new object's fields, the nested ones included, equal the
\* original's.
NestedMultiRoundTrip ==
    (ty \in {"MultiComplexClass", "MultiItemsClass"} /\ calls # <<>>) =>
        /\ calls[Len(calls)].threw = ""
        /\ calls[Len(calls)].call = "deserialize" => y = x

\* C17: serializing a ComplexMultiClass object with two different adapter
\* kinds gives two different byte strings, and deserializing a byte string
\* with the kind that wrote it gives field values equal to the original's.
AdapterSwitching ==
    (ty = "ComplexMultiClass" /\ calls # <<>>) =>
        /\ calls[Len(calls)].call = "deserialize" => (threw = "" /\ y = x)
        /\ \A i, j \in 1..Len(calls) :
              (calls[i].call = "serialize" /\ calls[j].call = "serialize"
                    /\ calls[i].kind # calls[j].kind) => calls[i].out # calls[j].out


\* ------------------------------------------------ the Binary read path
\* C26: with the Binary adapter, deserializing the bytes serialize wrote for
\* a value of the same type reads the fields back in the order they were
\* written and consumes exactly the bytes written: when deserialize returns
\* the read position is the end of the stream, no read went past it, and the
\* values read are the values written.
BinaryConsumesAll ==
    (kind = "binary" /\ pc \in {"deserialized", "reserialized"}) =>
        (consumed = Len(stream) /\ ~pastEnd /\ threw = "" /\ y = x)

\* a NestedClass with an empty string, a non-empty sequence, a nested object
\* and a sealed member, read back to the last byte
BinaryConsumesAllWitness ==
    /\ kind = "binary" /\ pc = "deserialized" /\ ty = "NestedClass"
    /\ x[1] = <<>> /\ x[3] # <<>> /\ x[2][2] # <<>>
    /\ consumed = Len(stream) /\ consumed > Len(LayoutOf(NestedClass, DefaultValue(NestedClass)))


\* ------------------------------------------------ refilled sequences
\* the sequence fields of the class of x
SequenceFields == {i \in 1..Len(FieldsOf) : FieldsOf[i].type.kind = "vec"}

\* vec has the adapter-reported length of the array at node, and each
\* element is what deserializing that slot into a new element gives
FilledFromSlots(t, vec, ad, node) ==
    /\ Len(vec) = SmallNat(GetArraySize(ad, node).val)
    /\ \A k \in 1..Len(vec) :
          LET FromSlot(e) == DeserializeValue(t.elem, FreshValue(t.elem), e.ad, e.node, <<>>).val
          IN  vec[k] = FromSlot(GetArrayElement(ad, node, k - 1))

\* C23: after deserialize, a sequence field for which the document holds an
\* array has exactly the adapter-reported length, whatever it held before,
\* and element i is the value deserialized from slot i, so nothing of the
\* prior contents is left; a sequence field for which the document holds no
\* array is as it was. (The Binary stream is positional: the arrays it holds
\* are those of x, in order.)
SequenceReplaced ==
    (pc = "deserialized" /\ threw = "") =>
        \A i \in SequenceFields :
            IF kind = "binary" THEN y[i] = x[i]
            ELSE LET Found(c) ==
                         IF c.node.ok /\ IsArray(c.ad, c.node)
                         THEN FilledFromSlots(FieldsOf[i].type, y[i], c.ad, c.node)
                         ELSE y[i] = y0[i]
                 IN  Found(GetChild(DocRoot.ad, DocRoot.node, FieldsOf[i].name))

\* a sequence that held two elements was refilled from a one-element array
\* while its neighbour, absent from the document, kept its contents
SequenceReplacedWitness ==
    /\ pc = "deserialized" /\ threw = "" /\ kind = "json" /\ ty = "NestedClass"
    /\ Len(y0[3]) = 2 /\ Len(y[3]) = 1 /\ y[3][1] # y0[3][1]
    /\ y[2] = y0[2] /\ y0[2] # DefaultValue(TestClass)


\* ------------------------------------------------ Text child lookup
\* the last call was getChild(n, k) on a Text reader with n a node and k a
\* non-empty key
TextLookup ==
    /\ pc = "api" /\ kind = "text" /\ ~adapter.writing
    /\ last.op = "getChild" /\ last.key # <<>> /\ last.node.ok

\* the full dotted path of the child k of the node at path
DottedPath(path, k) == IF path = <<>> THEN k ELSE path \o <<ChDot>> \o k

\* some stored key is the path or begins with the path followed by '.'
StoredAtOrUnder(path) ==
    \E k \in DOMAIN adapter.data : k = path \/ StartsWith(k, path \o <<ChDot>>)

\* getChild reports the child present exactly when a stored key is its path
\* or lies under it
TextChildPresence ==
    TextLookup => (last.result.ok <=> StoredAtOrUnder(DottedPath(last.node.path, last.key)))

\* C24 as stated: getChild reports the child present exactly when a stored
\* key is its path or lies under it, and isObject(n) is true exactly when
\* some stored key begins with n's path followed by '.', for every node n.
TextPresence ==
    /\ TextChildPresence
    /\ (pc = "api" /\ kind = "text" /\ ~adapter.writing) =>
          \A n \in nodes :
              n.ok => (IsObject(adapter, n)
                          <=> \E k \in DOMAIN adapter.data : StartsWith(k, n.path \o <<ChDot>>))

\* C24, amended: as stated for every node but the root; for the root, whose
\* path is empty, isObject is true exactly when the document stores any key.
TextPresenceAmended ==
    /\ TextChildPresence
    /\ (pc = "api" /\ kind = "text" /\ ~adapter.writing) =>
          \A n \in nodes :
              n.ok => (IsObject(adapter, n)
                          <=> IF n.path = <<>> THEN DOMAIN adapter.data # {}
                              ELSE \E k \in DOMAIN adapter.data :
                                       StartsWith(k, n.path \o <<ChDot>>))

\* getChild(root, "id") on a document whose only key is "idid": the key
\* shares the prefix but the child is absent, and the root is an object
TextPresenceAmendedWitness ==
    /\ TextLookup
    /\ last.node.path = <<>> /\ last.key = N_id
    /\ DOMAIN adapter.data = {N_id \o N_id}
    /\ ~last.result.ok
    /\ IsObject(adapter, last.node)


\* ------------------------------------------------ JSON integers
\* the number case and the field of the document being read
ReadsNumber(i, c) ==
    /\ pc \in {"deserialized", "reserialized"} /\ kind = "json" /\ ty = "WidthsClass"
    /\ stream = NumberDocument(i, c)

\* the number lies in the range of the integral type t
InRangeOf(c, t) == c.fits /\ Widen(Narrow(c.i64, t.nbytes), 8, t.signed) = c.i64

MaxInputLen == 4

\* [ ] { } , : " a space, a digit and a letter that starts no token's match
ParserAlphabet == {ChLBracket, ChRBracket, ChLBrace, ChRBrace, ChComma, ChColon,
                   ChQuote, ChSpace, 110}

ParserInputs == UNION {[1..n -> ParserAlphabet] : n \in 0..MaxInputLen}

NewParser(input) ==
    [input_ |-> input, position_ |-> 0, dom |-> <<>>, frames |-> <<>>,
     at |-> "parseValue", result |-> 0]

Frame(fn, node, start) == [fn |-> fn, node |-> node, key |-> <<>>, start |-> start]

TopFrame(ps) == ps.frames[Len(ps.frames)]

Returned(ps, dom, id, pos, frames) ==
    [ps EXCEPT !.dom = dom, !.result = id, !.position_ = pos, !.frames = frames,
               !.at = "returned"]

\* parseValue up to the first nested parseValue call, or to its return
EnterValue(ps) ==
    LET inp == ps.input_
        pos == skipWhitespace(inp, ps.position_)
        c == currentChar(inp, pos)
        Container(fn, close, head) ==
            LET a == Alloc(ps.dom, IF fn = "parseArray" THEN "Array" ELSE "Object")
                p == skipWhitespace(inp, pos + 1)
            IN  IF currentChar(inp, p) = close
                THEN Returned(ps, a.dom, a.id, p + 1, ps.frames)
                ELSE [ps EXCEPT !.dom = a.dom, !.position_ = p, !.at = head,
                                !.frames = Append(@, Frame(fn, a.id, p))]
        Scalar(v) == Returned(ps, v.dom, v.id, v.pos, ps.frames)
    IN  IF c = ChLBracket THEN Container("parseArray", ChRBracket, "parseValue")
        ELSE IF c = ChLBrace THEN Container("parseObject", ChRBrace, "parseKey")
        ELSE Scalar(parseValue(inp, pos, ps.dom))

\* parseObject's loop from its head to the parseValue call for the member
EnterKey(ps) ==
    LET inp == ps.input_
        n == Len(ps.frames)
        k == parseString(inp, skipWhitespace(inp, ps.position_), ps.dom)
        p1 == skipWhitespace(inp, k.pos)
    IN  IF currentChar(inp, p1) # ChColon
        THEN Returned(ps, ps.dom, TopFrame(ps).node, p1, SubSeq(ps.frames, 1, n - 1))
        ELSE [ps EXCEPT !.position_ = p1 + 1, !.at = "parseValue",
                        !.frames[n].key = KeyOf(k.dom[k.id].rawValue)]

\* the rest of a loop iteration once the element's parseValue has returned:
\* leave on the closing bracket or on a missing comma, else start the next
ElementParsedNoBreak(ps) ==
    LET inp == ps.input_
        n == Len(ps.frames)
        f == TopFrame(ps)
        d == IF f.fn = "parseArray"
             THEN [ps.dom EXCEPT ![f.node].arrayChildren = Append(@, ps.result)]
             ELSE [ps.dom EXCEPT ![f.node].objectChildren = PutChild(@, f.key, ps.result)]
        p == skipWhitespace(inp, ps.position_)
        close == IF f.fn = "parseArray" THEN ChRBracket ELSE ChRBrace
        next == IF currentChar(inp, p) # ChComma THEN p
                ELSE IF f.fn = "parseArray" THEN skipWhitespace(inp, p + 1) ELSE p + 1
    IN  IF currentChar(inp, p) = close
        THEN Returned(ps, d, f.node, p + 1, SubSeq(ps.frames, 1, n - 1))
        ELSE [ps EXCEPT !.dom = d, !.position_ = next, !.frames[n].start = next,
                        !.at = IF f.fn = "parseArray" THEN "parseValue" ELSE "parseKey"]

ElementParsed(ps) ==
    LET inp == ps.input_
        n == Len(ps.frames)
        f == TopFrame(ps)
        d == IF f.fn = "parseArray"
             THEN [ps.dom EXCEPT ![f.node].arrayChildren = Append(@, ps.result)]
             ELSE [ps.dom EXCEPT ![f.node].objectChildren = PutChild(@, f.key, ps.result)]
        p == skipWhitespace(inp, ps.position_)
        close == IF f.fn = "parseArray" THEN ChRBracket ELSE ChRBrace
        next == IF f.fn = "parseArray" THEN skipWhitespace(inp, p + 1) ELSE p + 1
    IN  IF currentChar(inp, p) = close
        THEN Returned(ps, d, f.node, p + 1, SubSeq(ps.frames, 1, n - 1))
        ELSE IF currentChar(inp, p) # ChComma
        THEN Returned(ps, d, f.node, p, SubSeq(ps.frames, 1, n - 1))
        ELSE [ps EXCEPT !.dom = d, !.position_ = next, !.frames[n].start = next,
                        !.at = IF f.fn = "parseArray" THEN "parseValue" ELSE "parseKey"]

InitParser ==
    /\ pc = "parsing"
    /\ kind = "json"
    /\ ty = "TestClass"
    /\ parser \in {NewParser(input) : input \in ParserInputs}
    /\ x = <<>> /\ y = <<>> /\ y0 = <<>>
    /\ stream = <<>> /\ stream2 = <<>>
    /\ threw = ""
    /\ consumed = 0
    /\ pastEnd = FALSE
    /\ charSigned = FALSE
    /\ hashRev = FALSE
    /\ adapter = <<>> /\ nodes = {} /\ last = NoCall
    /\ RegIdle

ParserStepped(ps) ==
    /\ parser' = ps
    /\ UNCHANGED <<tripVars, adapter, nodes, last, regVars>>

ParserEntersValue ==
    /\ pc = "parsing" /\ parser.at = "parseValue"
    /\ ParserStepped(EnterValue(parser))

ParserEntersKey ==
    /\ pc = "parsing" /\ parser.at = "parseKey"
    /\ ParserStepped(EnterKey(parser))

ParserElementParsed ==
    /\ pc = "parsing" /\ parser.at = "returned" /\ parser.frames # <<>>
    /\ ParserStepped(ElementParsed(parser))

\* parse() returns the root
ParserReturns ==
    /\ pc = "parsing" /\ parser.at = "returned" /\ parser.frames = <<>>
    /\ pc' = "parsed"
    /\ UNCHANGED <<kind, ty, x, stream, y, y0, threw, consumed, pastEnd, stream2,
                   charSigned, hashRev, apiVars, regVars>>

NextParser ==
    \/ ParserEntersValue
    \/ ParserEntersKey
    \/ ParserElementParsed
    \/ ParserReturns

SpecJsonParser == InitParser /\ [][NextParser]_vars

\* ---------------------------------------------------------------- C29
\* C29: the JSON parser terminates on every input: an iteration of
\* parseArray's or parseObject's loop that does not leave the loop ends at a
\* position beyond the one it began at, the position never decreases and
\* never exceeds the input's length, and parse returns a DOM whose root is a
\* node of it (the DOM the recursive descent builds), whatever the input.
\* Termination: until parse has returned a step is always possible, and every
\* step lowers ParserRank, which is never negative.
ParserCanStep ==
    \/ parser.at \in {"parseValue", "returned"}
    \/ parser.at = "parseKey" /\ parser.frames # <<>>
           /\ TopFrame(parser).fn = "parseObject"

ParserRank(ps, at) ==
    3 * (Len(ps.input_) - ps.position_) + Len(ps.frames)
        + (IF ps.at = "returned" THEN 0 ELSE 1) + (IF at = "parsed" THEN 0 ELSE 1)

ParserProgress ==
    /\ ParserRank(parser', pc') < ParserRank(parser, pc)
    /\ parser'.position_ >= parser.position_
    /\ parser'.position_ <= Len(parser.input_)
    /\ (parser.at = "returned" /\ parser.frames # <<>>
            /\ Len(parser'.frames) = Len(parser.frames))
        => parser'.position_ > TopFrame(parser).start

ParserReturnsDom ==
    pc = "parsed" =>
        /\ parser.result \in 1..Len(parser.dom)
        /\ parser.result = parse(parser.input_).id
        /\ parser.dom = parse(parser.input_).dom
        /\ parser.position_ = parse(parser.input_).pos

ParserTerminates ==
    /\ [][ParserProgress]_vars
    /\ [](pc = "parsing" => (parser.position_ <= Len(parser.input_) /\ ParserCanStep))
    /\ []ParserReturnsDom

\* an unbalanced nest of containers around an unknown token, parsed to a DOM
ParserTerminatesWitness ==
    /\ pc = "parsed"
    /\ parser.input_ = <<ChLBracket, ChLBrace, ChColon, 110>>
    /\ Len(parser.dom) = 3
    /\ parser.position_ = 3


\* ---------------------------------------------------------------- C21
\* C21: every serialize<A> and deserialize<A> call on a MultiSerializable
\* object returns normally: no call ends at a second lock of the registry
\* mutex its own thread already holds, neither hanging there nor leaving by
\* std::system_error, and the mutex is free again after every call.
MultiCallsReturn ==
    /\ pc # "multi-hung"
    /\ \A i \in 1..Len(calls) : calls[i].threw \notin RelockOutcomes
    /\ pc = "multi-ready" => \A a \in DOMAIN reg.registryMutex_ : reg.registryMutex_[a] = 0


\* ---------------------------------------------------------------- C22
\* the values the Lazy-JSON adapter owns: the root and what unique_ptrs in
\* owned values' objectChildren and arrayChildren hold; any other value of the
\* heap has been destroyed
RECURSIVE OwnedFrom(_, _)
OwnedFrom(dom, ids) ==
    LET below == UNION {{dom[i].objectChildren[j].id : j \in 1..Len(dom[i].objectChildren)}
                            \cup {dom[i].arrayChildren[j] : j \in 1..Len(dom[i].arrayChildren)}
                        : i \in ids}
    IN  IF below \subseteq ids THEN ids ELSE OwnedFrom(dom, ids \cup below)

JsonOwned(ad) == OwnedFrom(ad.dom, {ad.rootId})

\* C22: with the Text and Lazy-JSON adapters every node handle handed out by
\* root, addChild, getChild, addArrayElement or getArrayElement is still valid
\* after every later call: a Text handle points at its path's entry of
\* nodeCache_, a Lazy-JSON handle at a JsonValue the document still owns.
HandlesStayValid ==
    (pc = "api" /\ kind \in {"text", "json"} /\ adapter.threw = "") =>
        \A n \in nodes :
            n.ok => IF kind = "json" THEN n.id \in JsonOwned(adapter)
                    ELSE n.path \in adapter.nodeCache


\* ---------------------------------------------------------------- C25
\* the threads inside the emplace_back of a descriptor of class c
Appenders(c) == {t \in Threads : At(reg, t, "emplace_back") /\ Top(reg, t).cls = c}

\* C25: at most one thread at a time appends to a type's field list, and once
\* a constructor of the type has returned to any thread nobody appends to the
\* list any more: every field's once flag is set, so the list a serialize or
\* deserialize call of that thread iterates is complete and is not changing,
\* also when several threads construct the type's first instances at once.
FieldListSettled ==
    pc = "registering" =>
        \A c \in RegClasses :
            /\ Cardinality(Appenders(c)) <= 1
            /\ c \in reg.constructed =>
                  /\ Appenders(c) = {}
                  /\ \A i \in 1..Len(c.fields) : reg.registrationFlag[<<c, i>>] = "done"
                  /\ Len(reg.fields[c]) = Len(c.fields)

\* one thread holds an instance of a class with several fields while the
\* other is still inside that class's constructor, past its first field
FieldListSettledWitness ==
    /\ pc = "registering"
    /\ \E t, u \in Threads :
          /\ t # u
          /\ reg.ops[t] > 0 /\ reg.stack[t] = <<>>
          /\ At(reg, u, "ctor") /\ Top(reg, u).i > 1
          /\ Top(reg, u).cls \in reg.constructed
          /\ Len(Top(reg, u).cls.fields) > 1


\* ---------------------------------------------------------------- C27
\* the Serializable class with the field list of the MultiSerializable class
StaticTwin == TObj(FieldsOf)

\* C27: for MultiSimpleClass (a string and an int) and ComplexMultiClass
\* (sequences of sealed objects and of strings, a string and an int),
\* serialize<A> through the registry writes exactly what the statically bound
\* serialize of a Serializable class with the same fields writes for the same
\* values, and deserialize<A> ends with the same field values and the same
\* exception, if any, as the statically bound deserialize, for every adapter.
DispatchEquivalent ==
    (pc = "multi-ready" /\ ty \in {"MultiSimpleClass", "ComplexMultiClass"} /\ calls # <<>>) =>
        /\ \A i \in 1..Len(calls) :
              calls[i].call = "serialize" =>
                  LET Same(ad) == calls[i].out = ad.out /\ calls[i].threw = ad.threw
                  IN  Same(serialize(calls[i].kind, StaticTwin, x, charSigned, hashRev))
        /\ calls[Len(calls)].call = "deserialize" =>
              LET Same(s) == y = s.val /\ threw = s.ad.threw
              IN  Same(deserialize(kind, StaticTwin, DefaultValue(StaticTwin), stream))

\* a ComplexMultiClass object with a sealed element and a tag, serialized
\* and deserialized with the Lazy-JSON adapter
DispatchEquivalentWitness ==
    /\ pc = "multi-ready" /\ ty = "ComplexMultiClass" /\ kind = "json"
    /\ x[1] # <<>> /\ x[2] # <<>> /\ x[3] # <<>>
    /\ calls # <<>> /\ calls[Len(calls)].call = "deserialize"
    /\ y[1] = x[1]


\* ---------------------------------------------------------------- C30
\* hasSerializer(t) / hasDeserializer(t) of adapter kind a, evaluated in the
\* current state
hasSerializer(a, vt) == MapHas(reg.serializers_[a], vt)
hasDeserializer(a, vt) == MapHas(reg.deserializers_[a], vt)

\* C30: whenever the registry mutex of an adapter kind is free, so that a
\* lookup can take it, that kind's serializer map and deserializer map have
\* the same type keys (hasSerializer(t) = hasDeserializer(t) for every type
\* t), under every interleaving of registrations; and no step removes an
\* entry from either map.
RegistryMapsAgree ==
    pc = "registering" =>
        \A a \in {"text", "binary", "json"} :
            MutexFree(reg, a) =>
                \A vt \in ValueTypes : hasSerializer(a, vt) = hasDeserializer(a, vt)

RegistryEntriesKept ==
    (pc = "registering" /\ pc' = "registering") =>
        \A a \in {"text", "binary", "json"} :
            /\ DOMAIN reg.serializers_[a] \subseteq DOMAIN reg.serializers_'[a]
            /\ DOMAIN reg.deserializers_[a] \subseteq DOMAIN reg.deserializers_'[a]

RegistryPairsKept == []RegistryMapsAgree /\ [][RegistryEntriesKept]_vars

\* the Text registry holds both closures of two types and its mutex is free
\* while a thread is storing closures in another kind's registry
RegistryPairsKeptWitness ==
    /\ pc = "registering"
    /\ MutexFree(reg, "text")
    /\ Cardinality(DOMAIN reg.serializers_["text"]) >= 2
    /\ \E t \in Threads : At(reg, t, "insert") /\ Top(reg, t).a > 1
    /\ \E vt \in ValueTypes : ~hasSerializer("text", vt)

====
